---- MODULE Spec2Model ----
(***************************************************************************)
(* A model of the redaction gateway (mcp_redaction): the detector's span   *)
(* merge, the token store, the redact and detokenize pipelines, the        *)
(* streaming detokenizer, the policy engine and the transparent proxy.     *)
(*                                                                         *)
(* Text is a sequence of one-character strings.  The two guillemets of the *)
(* placeholder wire format are written "<" (U+00AB) and ">" (U+00BB),      *)
(* which no other text of the model contains.  Offsets of spans are the    *)
(* source's: 0-based and half-open, text[s:e] is SubSeq(text, s+1, e).     *)
(***************************************************************************)
EXTENDS Integers, Sequences, FiniteSets, TLC

VARIABLES
    store,      \* tokens._maps: handle -> [exp, kv, meta]
    now,        \* time.time() in milliseconds
    hmacTab,    \* the HMAC-SHA256 digests computed so far: <<conversation, raw>> -> 4 hex
    audit,      \* the audit log, one record per audit.write
    sd,         \* the StreamingDetokenizer: [token_handle, buffer]
    stream,     \* the upstream text of one stream: [input, rest, out, phase]
    rq,         \* one /redact + /detokenize exchange: [text, cands, conv, phase]
    redacted,   \* what redact_internal returned (None before)
    detok,      \* what the last detokenize call returned (None before)
    pol,        \* the policy engine: [doc, cats, context, decision]
    px,         \* one transparent-proxy request
    calls,      \* the /redact calls answered so far, oldest first
    ts,         \* the two token-store backends driven side by side
    fs,         \* one find_spans call on one candidate: [cand, spans, phase]
    rt          \* one POST /route exchange: [text_cats, ctx, response, phase]

vars == <<store, now, hmacTab, audit, sd, stream, rq, redacted, detok, pol, px, calls, ts, fs, rt>>

None == "None"          \* Python's None where a string is expected
NoHandle == -1          \* Python's None where a handle is expected
NoDetok == [status |-> 0]
NoRedact == [handle |-> NoHandle]

-----------------------------------------------------------------------------
(* Bounds of the model.                                                    *)

MaxPieces == 2      \* pieces an upstream text is built from
MaxTextLen == 3     \* characters of a redacted text
MaxCands == 2       \* pattern matches (candidate spans) in a redacted text
MaxMessages == 2    \* messages of a proxied request
MaxRoutes == 2      \* routes of a policy document behind its secrets_block route
MaxMsgLen == 2      \* characters of a message of a proxied request
MaxCalls == 3       \* /redact calls of one run
MaxTicks == 6       \* quarter seconds the clock of the token-store run advances
MaxCreates == 1     \* create calls of the token-store run
MaxBodyLen == 3     \* characters of a payload sent to the size check
MaxRequests == 2    \* /redact requests of one run of the size-limit specification
KbBytes == 3        \* bytes that stand for the 1024 bytes of a kilobyte
MaxChunkPieces == 3 \* pieces one upstream chunk is built from
MaxChunks == 2      \* process_chunk calls on one detokenizer
MaxHandles == 2     \* create calls of the cleanup run

-----------------------------------------------------------------------------
(* Characters and the placeholder pattern  <token:[A-Z_]+:[0-9a-f]{4}>     *)

LQ == "<"
RQ == ">"

UpperClass ==
    {"A","B","C","D","E","F","G","H","I","J","K","L","M","N","O","P","Q","R",
     "S","T","U","V","W","X","Y","Z","_"}

HexClass == {"0","1","2","3","4","5","6","7","8","9","a","b","c","d","e","f"}

TokenPrefix == <<LQ, "t", "o", "k", "e", "n", ":">>

RECURSIVE Flatten(_)
Flatten(parts) ==
    IF parts = <<>> THEN <<>> ELSE Head(parts) \o Flatten(Tail(parts))

\* Length of the maximal run of characters of class cls starting at s[i].
RECURSIVE RunLen(_, _, _)
RunLen(s, i, cls) ==
    IF i <= Len(s) /\ s[i] \in cls THEN 1 + RunLen(s, i + 1, cls) ELSE 0

\* token_pattern matched at position i (1-based): the position of the closing
\* guillemet, 0 when the pattern does not match there.
MatchEnd(s, i) ==
    LET k == RunLen(s, i + 7, UpperClass)
        c == i + 7 + k
    IN  IF /\ i + 6 <= Len(s)
           /\ s[i] = LQ
           /\ SubSeq(s, i, i + 6) = TokenPrefix
           /\ k >= 1
           /\ c + 5 <= Len(s)
           /\ s[c] = ":"
           /\ \A j \in (c + 1)..(c + 4) : s[j] \in HexClass
           /\ s[c + 5] = RQ
        THEN c + 5
        ELSE 0

\* token_pattern.finditer(s): the matches <<start, end>> (1-based, inclusive),
\* leftmost first, scanning on after each match.
RECURSIVE FindIter(_, _)
FindIter(s, i) ==
    IF i > Len(s) THEN <<>>
    ELSE IF MatchEnd(s, i) > 0
         THEN <<<<i, MatchEnd(s, i)>>>> \o FindIter(s, MatchEnd(s, i) + 1)
         ELSE FindIter(s, i + 1)

\* s.rfind(sub): the last position (1-based) where sub occurs, 0 when none.
RFind(s, sub) ==
    LET hits == {i \in 1..(Len(s) - Len(sub) + 1) :
                    s[i] = sub[1] /\ SubSeq(s, i, i + Len(sub) - 1) = sub}
    IN  IF hits = {} THEN 0 ELSE CHOOSE i \in hits : \A j \in hits : j <= i

Contains(s, sub) == RFind(s, sub) > 0

-----------------------------------------------------------------------------
(* Token store (InMemoryTokenStore).                                       *)

DefaultTtlSeconds == 14400

EmptyMap == [p \in {} |-> <<>>]

\* create(): the handle is the clock in milliseconds.
StoreCreate(st, t) ==
    [h \in DOMAIN st \cup {t} |->
        IF h = t THEN [exp |-> t + DefaultTtlSeconds * 1000, kv |-> EmptyMap, meta |-> EmptyMap]
        ELSE st[h]]

MapPut(m, key, value) ==
    [p \in DOMAIN m \cup {key} |-> IF p = key THEN value ELSE m[p]]

\* put(handle, key, value, meta): handle is known.
StorePut(st, h, key, value, cat) ==
    [st EXCEPT ![h] = [exp |-> st[h].exp,
                       kv |-> MapPut(st[h].kv, key, value),
                       meta |-> MapPut(st[h].meta, key, cat)]]

\* all(handle): the two maps, both empty for an unknown or expired handle.
StoreAll(st, h, t) ==
    LET e == IF h \in DOMAIN st THEN st[h]
             ELSE [exp |-> 0, kv |-> EmptyMap, meta |-> EmptyMap]
    IN  IF e.exp < t THEN [kv |-> EmptyMap, meta |-> EmptyMap]
        ELSE [kv |-> e.kv, meta |-> e.meta]

-----------------------------------------------------------------------------
(* Detokenize pipeline (detokenize_internal).                              *)

TrustedCallers == {"incident-mgr", "runbook-executor"}

ReplaceIgnoringCategory(ph, maps, allow) ==
    IF ph \in DOMAIN maps.kv THEN maps.kv[ph] ELSE ph

\* The replace callback of re.sub.
Replace(ph, maps, allow) ==
    LET cat == IF ph \in DOMAIN maps.meta THEN maps.meta[ph] ELSE "unknown"
    IN  IF cat \notin allow THEN ph
        ELSE IF ph \in DOMAIN maps.kv THEN maps.kv[ph] ELSE ph

\* re.sub(token pattern, replace, text)
RECURSIVE ReSub(_, _, _, _)
ReSub(s, i, maps, allow) ==
    IF i > Len(s) THEN <<>>
    ELSE IF MatchEnd(s, i) > 0
         THEN Replace(SubSeq(s, i, MatchEnd(s, i)), maps, allow)
                  \o ReSub(s, MatchEnd(s, i) + 1, maps, allow)
         ELSE <<s[i]>> \o ReSub(s, i + 1, maps, allow)

MetaValues(maps) == {maps.meta[p] : p \in DOMAIN maps.meta}

\* detokenize_internal without its authorization check.
DetokenizeAuthMutant(payload, h, allow, caller, skip_auth, st, t) ==
    LET maps == StoreAll(st, h, t)
    IN  [status |-> 200,
         restored |-> ReSub(payload, 1, maps, allow),
         read |-> TRUE,
         recs |-> <<[action |-> "detokenize", caller |-> caller,
                    categories |-> MetaValues(maps), decision |-> allow,
                    counts |-> EmptyMap]>>]

\* detokenize_internal(req, skip_auth): the response, the audit records it
\* writes (none or one) and whether the token map was read.
DetokenizeInternal(payload, h, allow, caller, skip_auth, st, t) ==
    IF ~skip_auth /\ caller \notin TrustedCallers
    THEN [status |-> 403, restored |-> <<>>, read |-> FALSE, recs |-> <<>>]
    ELSE LET maps == StoreAll(st, h, t)
         IN  [status |-> 200,
              restored |-> ReSub(payload, 1, maps, allow),
              read |-> TRUE,
              recs |-> <<[action |-> "detokenize", caller |-> caller,
                         categories |-> MetaValues(maps), decision |-> allow,
                         counts |-> EmptyMap]>>]

-----------------------------------------------------------------------------
(* Detector (find_spans).  The matches of the compiled patterns are an     *)
(* input of the model: a set of candidate spans [cat, s, e], each the      *)
(* match of some pattern of category cat that passed its validator.        *)

CATEGORY_ORDER == <<"secret", "pii", "ops_sensitive">>

Categories == {CATEGORY_ORDER[i] : i \in 1..Len(CATEGORY_ORDER)}

CatRank(cat) == CHOOSE i \in 1..Len(CATEGORY_ORDER) : CATEGORY_ORDER[i] = cat

\* Python's tuple order on the sort key (start, end).
KeyLess(a, b) == a.s < b.s \/ (a.s = b.s /\ a.e < b.e)

\* The list `spans` after the pattern loops: category by category in
\* CATEGORY_ORDER.  Within one category the candidates are listed by
\* position; the source lists them pattern by pattern, which the stable sort
\* on (start, end) makes indistinguishable, two candidates of one category
\* with one key being equal.
RECURSIVE CollectSpans(_)
CollectSpans(cands) ==
    IF cands = {} THEN <<>>
    ELSE LET first == CHOOSE c \in cands : \A d \in cands \ {c} :
                          \/ CatRank(c.cat) < CatRank(d.cat)
                          \/ (CatRank(c.cat) = CatRank(d.cat) /\ KeyLess(c, d))
         IN  <<first>> \o CollectSpans(cands \ {first})

\* list.sort(key=(start, end)): stable, so x goes behind every element whose
\* key is not greater.
RECURSIVE InsertStable(_, _)
InsertStable(sorted, x) ==
    IF sorted = <<>> THEN <<x>>
    ELSE IF KeyLess(x, Head(sorted)) THEN <<x>> \o sorted
         ELSE <<Head(sorted)>> \o InsertStable(Tail(sorted), x)

RECURSIVE StableSort(_, _)
StableSort(list, acc) ==
    IF list = <<>> THEN acc
    ELSE StableSort(Tail(list), InsertStable(acc, Head(list)))

\* The merge loop without its overlap test: every span is kept.
MergeSpansKeepAll(sorted, merged) == merged \o sorted

\* The merge loop: a span that starts at or before the end of the last kept
\* span is dropped.
RECURSIVE MergeSpans(_, _)
MergeSpans(sorted, merged) ==
    IF sorted = <<>> THEN merged
    ELSE LET x == Head(sorted)
         IN  IF merged = <<>> THEN MergeSpans(Tail(sorted), <<x>>)
             ELSE IF x.s <= merged[Len(merged)].e
                  THEN MergeSpans(Tail(sorted), merged)
                  ELSE MergeSpans(Tail(sorted), Append(merged, x))

\* find_spans(text), given the pattern matches in text.
FindSpans(cands) == MergeSpans(StableSort(CollectSpans(cands), <<>>), <<>>)

-----------------------------------------------------------------------------
(* Placeholder codec (get_salt, token_placeholder).                        *)

\* str.upper() on the category names.
Upper(cat) ==
    CASE cat = "secret" -> <<"S","E","C","R","E","T">>
      [] cat = "pii" -> <<"P","I","I">>
      [] cat = "ops_sensitive" -> <<"O","P","S","_","S","E","N","S","I","T","I","V","E">>

\* get_salt: the salt is keyed by (conversation_id or "default"): "default"
\* for None and for the empty string.
Scope(conv) == IF conv \in {None, ""} THEN "default" ELSE conv

\* hexdigest()[:4] of HMAC-SHA256: four hex digits.  The digest of a
\* <<scope, raw>> pair is drawn when it is first computed and is the same
\* ever after; two values stand for the 16-bit range.
Digests == {<<"a","b","1","2">>, <<"c","d","3","4">>}

\* The placeholder with three hex digits of the digest.
TokenPlaceholderShortHash(token_type, raw, scope, tab) ==
    TokenPrefix \o token_type \o <<":">> \o SubSeq(tab[<<scope, raw>>], 1, 3) \o <<RQ>>

\* token_placeholder(token_type, raw, salt), the digest read from tab.
TokenPlaceholder(token_type, raw, scope, tab) ==
    TokenPrefix \o token_type \o <<":">> \o tab[<<scope, raw>>] \o <<RQ>>

-----------------------------------------------------------------------------
(* Redact pipeline (redact_internal).                                      *)

Slice(text, s, e) == SubSeq(text, s + 1, e)

\* The loop with the digest keyed by the handle of the call instead of the
\* conversation.
RECURSIVE RedactWalkSaltPerCall(_, _, _, _, _, _, _)
RedactWalkSaltPerCall(text, spans, last, scope, tab, st, h) ==
    IF spans = <<>>
    THEN [out |-> <<Slice(text, last, Len(text))>>, redactions |-> <<>>, store |-> st]
    ELSE LET x == Head(spans)
             raw == Slice(text, x.s, x.e)
             ph == TokenPrefix \o Upper(x.cat) \o <<":">>
                       \o (IF h % 2 = 0 THEN <<"a","b","1","2">> ELSE <<"c","d","3","4">>)
                       \o <<RQ>>
             rest == RedactWalkSaltPerCall(text, Tail(spans), x.e, scope, tab,
                                           StorePut(st, h, ph, raw, x.cat), h)
         IN  [out |-> <<Slice(text, last, x.s), ph>> \o rest.out,
              redactions |-> <<[type |-> x.cat, placeholder |-> ph, range |-> <<x.s, x.e>>]>>
                                \o rest.redactions,
              store |-> rest.store]

\* The loop over the merged spans: the list `out`, the redaction events and
\* the token store after the puts.
RECURSIVE RedactWalk(_, _, _, _, _, _, _)
RedactWalk(text, spans, last, scope, tab, st, h) ==
    IF spans = <<>>
    THEN [out |-> <<Slice(text, last, Len(text))>>, redactions |-> <<>>, store |-> st]
    ELSE LET x == Head(spans)
             raw == Slice(text, x.s, x.e)
             ph == TokenPlaceholder(Upper(x.cat), raw, scope, tab)
             rest == RedactWalk(text, Tail(spans), x.e, scope, tab,
                                StorePut(st, h, ph, raw, x.cat), h)
         IN  [out |-> <<Slice(text, last, x.s), ph>> \o rest.out,
              redactions |-> <<[type |-> x.cat, placeholder |-> ph, range |-> <<x.s, x.e>>]>>
                                \o rest.redactions,
              store |-> rest.store]

\* The counts with every category that was redacted counted once.
RedactionCountsPresence(redactions) ==
    [c \in {redactions[i].type : i \in 1..Len(redactions)} |-> 1]

RedactionCounts(redactions) ==
    [c \in {redactions[i].type : i \in 1..Len(redactions)} |->
        Cardinality({i \in 1..Len(redactions) : redactions[i].type = c})]

\* redact_internal(req) for a payload within the size limit: the response,
\* the token store after it and the audit record it writes.
RedactInternal(text, cands, conv, caller, st, t, tab) ==
    LET spans == FindSpans(cands)
        handle == t
        w == RedactWalk(text, spans, 0, Scope(conv), tab, StoreCreate(st, t), handle)
    IN  [sanitized_payload |-> Flatten(w.out),
         token_map_handle |-> handle,
         redactions |-> w.redactions,
         out |-> w.out,
         store |-> w.store,
         recs |-> <<[action |-> "redact", caller |-> caller,
                    categories |-> [i \in 1..Len(w.redactions) |-> w.redactions[i].type],
                    decision |-> "redact",
                    counts |-> RedactionCounts(w.redactions)]>>]

-----------------------------------------------------------------------------
(* Policy engine (PolicyEngine).  A document is a record; a key the YAML   *)
(* may omit holds the value its .get() default gives, and a mapping is a   *)
(* function whose domain is the keys present.                              *)

Missing == "<missing>"      \* a key the context dict does not have

\* str.lower() on the region names of the model.
Lower(region) == IF region = "CN" THEN "cn" ELSE region

\* dict.get(key, default) on a context dict.
CtxGet(v, default) == IF v = Missing THEN default ELSE v

\* _route_applies(route, context)
RouteApplies(route, ctx) ==
    /\ \/ "*" \in route.regions
       \/ Lower(CtxGet(ctx.region, "unknown")) \in route.regions
    /\ \/ "*" \in route.callers
       \/ CtxGet(ctx.caller, "unknown") \in route.callers

\* No caller has constraints.
GetCallerConstraintsNone(d, caller) == EmptyMap

\* _get_caller_constraints(caller): the empty mapping for an unlisted caller.
GetCallerConstraints(d, caller) ==
    IF caller \in DOMAIN d.caller_routing THEN d.caller_routing[caller] ELSE EmptyMap

\* _get_region_routing(region), region a string.
GetRegionRouting(d, region) ==
    IF Lower(region) \in d.restricted_regions
    THEN (IF "restricted" \in DOMAIN d.region_routing
          THEN d.region_routing["restricted"] ELSE EmptyMap)
    ELSE (IF Lower(region) \in DOMAIN d.region_routing
          THEN d.region_routing[Lower(region)] ELSE EmptyMap)

\* mapping.get(key) or <<>> for the model lists of a region entry.
ModelsOf(routing, key) == IF key \in DOMAIN routing THEN routing[key] ELSE <<>>

\* a or b or c on lists: the first that is not empty.
FirstNonEmpty(a, b, c) == IF a # <<>> THEN a ELSE IF b # <<>> THEN b ELSE c

\* The body of the route loop with the caller's categories taken as the
\* allowed categories of a redact decision, the route's list left aside.
ApplyRouteCallerOnly(route, decision, caller_constraints, region_routing) ==
    LET d1 == [decision EXCEPT !.action = route.action]
    IN  IF route.action = "block" THEN d1
        ELSE IF route.action = "redact"
        THEN LET models == FirstNonEmpty(route.allow_models,
                                         ModelsOf(region_routing, "preferred_models"),
                                         <<"external:unspecified">>)
                 caller_categories ==
                     IF "allow_categories" \in DOMAIN caller_constraints
                     THEN caller_constraints["allow_categories"]
                     ELSE route.allow_categories
             IN  [d1 EXCEPT !.requires_redaction = TRUE,
                            !.target = models[1],
                            !.allow_detokenize = route.allow_detokenize,
                            !.allowed_categories = caller_categories]
        ELSE IF route.action = "internal_only"
        THEN LET models == FirstNonEmpty(route.allow_models,
                                         ModelsOf(region_routing, "internal_fallback"),
                                         <<"internal:default">>)
             IN  [d1 EXCEPT !.target = models[1],
                            !.requires_redaction = FALSE,
                            !.allow_detokenize = FALSE]
        ELSE d1

\* The body of the route loop for a route that applies and whose
\* match.category is in cats or absent: the decision after it.
ApplyRoute(route, decision, caller_constraints, region_routing) ==
    LET d1 == [decision EXCEPT !.action = route.action]
    IN  IF route.action = "block" THEN d1
        ELSE IF route.action = "redact"
        THEN LET models == FirstNonEmpty(route.allow_models,
                                         ModelsOf(region_routing, "preferred_models"),
                                         <<"external:unspecified">>)
                 caller_categories ==
                     IF "allow_categories" \in DOMAIN caller_constraints
                     THEN caller_constraints["allow_categories"]
                     ELSE route.allow_categories
             IN  [d1 EXCEPT !.requires_redaction = TRUE,
                            !.target = models[1],
                            !.allow_detokenize = route.allow_detokenize,
                            !.allowed_categories = route.allow_categories \cap caller_categories]
        ELSE IF route.action = "internal_only"
        THEN LET models == FirstNonEmpty(route.allow_models,
                                         ModelsOf(region_routing, "internal_fallback"),
                                         <<"internal:default">>)
             IN  [d1 EXCEPT !.target = models[1],
                            !.requires_redaction = FALSE,
                            !.allow_detokenize = FALSE]
        ELSE d1

\* The route loop without its return on a block route.
RECURSIVE RouteLoopNoBlockReturn(_, _, _, _, _, _)
RouteLoopNoBlockReturn(routes, decision, cats, ctx, caller_constraints, region_routing) ==
    IF routes = <<>> THEN decision
    ELSE LET route == Head(routes)
             m == route.match_category
         IN  IF ~RouteApplies(route, ctx) \/ ~(m \in cats \/ m = None)
             THEN RouteLoopNoBlockReturn(Tail(routes), decision, cats, ctx,
                                         caller_constraints, region_routing)
             ELSE LET d == ApplyRoute(route, decision, caller_constraints, region_routing)
                  IN  IF route.action # "block" /\ m # None THEN d
                      ELSE RouteLoopNoBlockReturn(Tail(routes), d, cats, ctx,
                                                  caller_constraints, region_routing)

\* The route loop that returns on a block route only.
RECURSIVE RouteLoopNoCategoryReturn(_, _, _, _, _, _)
RouteLoopNoCategoryReturn(routes, decision, cats, ctx, caller_constraints, region_routing) ==
    IF routes = <<>> THEN decision
    ELSE LET route == Head(routes)
             m == route.match_category
         IN  IF ~RouteApplies(route, ctx) \/ ~(m \in cats \/ m = None)
             THEN RouteLoopNoCategoryReturn(Tail(routes), decision, cats, ctx,
                                            caller_constraints, region_routing)
             ELSE LET d == ApplyRoute(route, decision, caller_constraints, region_routing)
                  IN  IF route.action = "block" THEN d
                      ELSE RouteLoopNoCategoryReturn(Tail(routes), d, cats, ctx,
                                                     caller_constraints, region_routing)

\* for route in doc.routes: ... ; return decision
RECURSIVE RouteLoop(_, _, _, _, _, _)
RouteLoop(routes, decision, cats, ctx, caller_constraints, region_routing) ==
    IF routes = <<>> THEN decision
    ELSE LET route == Head(routes)
             m == route.match_category
         IN  IF ~RouteApplies(route, ctx) \/ ~(m \in cats \/ m = None)
             THEN RouteLoop(Tail(routes), decision, cats, ctx,
                            caller_constraints, region_routing)
             ELSE LET d == ApplyRoute(route, decision, caller_constraints, region_routing)
                  IN  IF route.action = "block" \/ m # None THEN d
                      ELSE RouteLoop(Tail(routes), d, cats, ctx,
                                     caller_constraints, region_routing)

\* decide(categories, context).  A region of None makes region.lower()
\* raise: the call returns no decision.
Decide(d, cats, ctx) ==
    LET region == CtxGet(ctx.region, "unknown")
        caller == CtxGet(ctx.caller, "unknown")
    IN  IF region = None THEN [raised |-> TRUE]
        ELSE LET caller_constraints == GetCallerConstraints(d, caller)
                 region_routing == GetRegionRouting(d, region)
                 decision == [raised |-> FALSE,
                              action |-> "allow",
                              target |-> "internal:default",
                              requires_redaction |->
                                  IF "force_redact" \in DOMAIN caller_constraints
                                  THEN caller_constraints["force_redact"] ELSE FALSE,
                              allow_detokenize |-> TRUE,
                              allowed_categories |-> {"ops_sensitive", "pii"},
                              policy_version |-> d.version]
             IN  RouteLoop(d.routes, decision, cats, ctx, caller_constraints, region_routing)

-----------------------------------------------------------------------------
(* Streaming detokenizer (StreamingDetokenizer).                           *)

\* The allow-list with secret in it.
ProxyAllowWithSecret == {"pii", "ops_sensitive", "secret"}

\* allow_categories=["pii", "ops_sensitive"] of both proxy paths.
ProxyAllow == {"pii", "ops_sensitive"}

\* _detokenize_single_token: detokenize_internal on the one placeholder,
\* skip_auth=True; a failure returns the placeholder.
DetokenizeSingleToken(ph, h, st, t) ==
    DetokenizeInternal(ph, h, ProxyAllow, "streaming-proxy", TRUE, st, t)

\* The loop over the complete matches: output_parts joined, and the audit
\* records of the single-token calls.
RECURSIVE WalkMatches(_, _, _, _, _, _)
WalkMatches(buf, matches, last, h, st, t) ==
    IF matches = <<>> THEN [out |-> <<>>, recs |-> <<>>, last |-> last]
    ELSE LET m == Head(matches)
             r == DetokenizeSingleToken(SubSeq(buf, m[1], m[2]), h, st, t)
             rest == WalkMatches(buf, Tail(matches), m[2], h, st, t)
         IN  [out |-> SubSeq(buf, last + 1, m[1] - 1) \o r.restored \o rest.out,
              recs |-> r.recs \o rest.recs,
              last |-> rest.last]

\* process_chunk(chunk_text): the returned text, the new buffer and the audit
\* records written on the way.
ProcessChunk(buffer0, chunk, h, st, t) ==
    LET buffer == buffer0 \o chunk
        matches == FindIter(buffer, 1)
    IN  IF matches = <<>>
        THEN IF Contains(buffer, TokenPrefix)
             THEN LET split == RFind(buffer, TokenPrefix)
                  IN  [out |-> SubSeq(buffer, 1, split - 1),
                       buffer |-> SubSeq(buffer, split, Len(buffer)),
                       recs |-> <<>>]
             ELSE [out |-> buffer, buffer |-> <<>>, recs |-> <<>>]
        ELSE LET w == WalkMatches(buffer, matches, 0, h, st, t)
                 remainder == SubSeq(buffer, w.last + 1, Len(buffer))
                 keep == IF Contains(remainder, TokenPrefix) THEN remainder ELSE <<>>
             IN  [out |-> IF keep = <<>> THEN w.out \o remainder ELSE w.out,
                  buffer |-> keep,
                  recs |-> w.recs]

-----------------------------------------------------------------------------
(* The streaming specification: one upstream text, cut into chunks at      *)
(* arbitrary positions, fed through process_chunk and then flush.          *)

StreamHandle == 1

PhPii == <<LQ,"t","o","k","e","n",":","P","I","I",":","a","b","1","2",RQ>>
PhSecret == <<LQ,"t","o","k","e","n",":","S","E","C","R","E","T",":","c","d","3","4",RQ>>
PhOps == <<LQ,"t","o","k","e","n",":","O","P","S","_","S","E","N","S","I","T","I","V","E",":",
           "a","b","1","2",RQ>>
PhForeign == <<LQ,"t","o","k","e","n",":","P","I","I",":","f","f","f","f",RQ>>

\* The token map a redact call at time 0 left under StreamHandle.
SeededStore ==
    [h \in {StreamHandle} |->
        [exp |-> DefaultTtlSeconds * 1000,
         kv |-> (PhPii :> <<"j","o","e">>) @@ (PhSecret :> <<"k","e","y">>) @@ (PhOps :> <<"d","b">>),
         meta |-> (PhPii :> "pii") @@ (PhSecret :> "secret") @@ (PhOps :> "ops_sensitive")]]

\* What upstream text is made of: placeholders (restorable, secret, foreign),
\* plain text, and beginnings of a placeholder that never complete.
Pieces ==
    {PhPii, PhSecret, PhOps, PhForeign, <<"h">>, <<LQ,"t","o","k">>, TokenPrefix}

PieceLists == UNION {[1..n -> Pieces] : n \in 0..MaxPieces}

CallsIdle == calls = <<>>

StoresIdle == ts = [phase |-> "idle"]

DetectIdle == fs = [phase |-> "idle"]

RouteIdle == rt = [phase |-> "idle"]

ServerIdle ==
    /\ hmacTab = EmptyMap
    /\ audit = <<>>
    /\ CallsIdle /\ StoresIdle
    /\ DetectIdle /\ RouteIdle

StreamIdle ==
    /\ sd = [token_handle |-> NoHandle, buffer |-> <<>>]
    /\ stream = [parts |-> <<>>, input |-> <<>>, rest |-> <<>>, out |-> <<>>, phase |-> "idle"]

RedactIdle ==
    /\ rq = [text |-> <<>>, cands |-> {}, conv |-> None, caller |-> None, phase |-> "idle"]
    /\ redacted = NoRedact
    /\ detok = NoDetok

PolicyIdle == pol = [phase |-> "idle"]

ProxyIdle ==
    px = [phase |-> "idle", messages |-> <<>>, conv |-> None, caller |-> None,
          sanitized |-> <<>>, handles |-> <<>>, status |-> 0, forwarded |-> FALSE,
          upstream |-> "none", upstream_status |-> 0,
          active |-> NoHandle, reply |-> <<>>, response |-> <<>>]

InitStream ==
    /\ store = SeededStore
    /\ now = 1
    /\ ServerIdle
    /\ sd = [token_handle |-> StreamHandle, buffer |-> <<>>]
    /\ \E parts \in PieceLists :
          stream = [parts |-> parts, input |-> Flatten(parts), rest |-> Flatten(parts),
                    out |-> <<>>, phase |-> "streaming"]
    /\ RedactIdle /\ PolicyIdle /\ ProxyIdle

\* One upstream chunk of k characters goes through process_chunk.
StreamChunk ==
    /\ stream.phase = "streaming"
    /\ \E k \in 1..Len(stream.rest) :
          LET r == ProcessChunk(sd.buffer, SubSeq(stream.rest, 1, k),
                                sd.token_handle, store, now)
          IN  /\ sd' = [sd EXCEPT !.buffer = r.buffer]
              /\ stream' = [stream EXCEPT !.rest = SubSeq(stream.rest, k + 1, Len(stream.rest)),
                                          !.out = stream.out \o r.out]
              /\ audit' = audit \o r.recs
    /\ UNCHANGED <<store, now, hmacTab, rq, redacted, detok, pol, px, calls, ts, fs, rt>>

\* flush() at the end of the stream.
StreamFlush ==
    /\ stream.phase = "streaming"
    /\ stream.rest = <<>>
    /\ sd' = [sd EXCEPT !.buffer = <<>>]
    /\ stream' = [stream EXCEPT !.out = stream.out \o sd.buffer, !.phase = "flushed"]
    /\ UNCHANGED <<store, now, hmacTab, audit, rq, redacted, detok, pol, px, calls, ts, fs, rt>>

NextStream == StreamChunk \/ StreamFlush

SpecStream == InitStream /\ [][NextStream]_vars

Received == SubSeq(stream.input, 1, Len(stream.input) - Len(stream.rest))

\* One-shot detokenization of the whole upstream text with the proxy's allow-list.
OneShot ==
    DetokenizeInternal(stream.input, StreamHandle, ProxyAllow, "proxy", TRUE, store, now).restored

\* C1 (as claimed): the chunk outputs followed by flush() equal the one-shot
\* detokenization of the text, for every text and every chunking.
C1_StreamingEquivalence ==
    stream.phase = "flushed" => stream.out = OneShot

\* A non-empty proper prefix of a string of the placeholder pattern.
IsPartialPlaceholder(s) ==
    LET n == Len(s)
        k == RunLen(s, 8, UpperClass)
    IN  /\ n >= 1
        /\ IF n <= 7 THEN s = SubSeq(TokenPrefix, 1, n)
           ELSE /\ SubSeq(s, 1, 7) = TokenPrefix
                /\ k >= 1
                /\ \/ 7 + k = n
                   \/ /\ s[8 + k] = ":"
                      /\ n - (8 + k) <= 4
                      /\ \A j \in (9 + k)..n : s[j] \in HexClass

\* C2 (as claimed): while the stream runs, a placeholder that is still
\* incomplete at the end of the input received so far is wholly held back
\* in the buffer: none of its characters has been output.
C2_NoPartialPlaceholderEmitted ==
    stream.phase = "streaming" =>
        \A k \in 1..Len(Received) :
            IsPartialPlaceholder(SubSeq(Received, Len(Received) - k + 1, Len(Received)))
                => Len(sd.buffer) >= k

-----------------------------------------------------------------------------
(* The detokenize specification: /detokenize calls (skip_auth false) and   *)
(* the proxy's internal calls (skip_auth true) against the seeded handle,  *)
(* before and after its expiry.                                            *)

UnknownHandle == 7

InitDetok ==
    /\ store = SeededStore
    /\ now = 1
    /\ ServerIdle
    /\ StreamIdle /\ RedactIdle /\ PolicyIdle /\ ProxyIdle

\* The instants the clock is observed at: the start, and the expiry of a
\* handle created at time 0 and the millisecond after it.
AdvanceClock ==
    /\ detok = NoDetok
    /\ \E t \in {1, DefaultTtlSeconds * 1000, DefaultTtlSeconds * 1000 + 1} : t > now /\ now' = t
    /\ UNCHANGED <<store, hmacTab, audit, sd, stream, rq, redacted, detok, pol, px, calls, ts, fs, rt>>

\* One call of detokenize_internal; the payload is the pieces joined.
DetokenizeCall ==
    /\ detok = NoDetok
    /\ \E parts \in PieceLists, h \in {StreamHandle, UnknownHandle},
          allow \in SUBSET Categories, caller \in {"incident-mgr", "user1", None}, skip_auth \in BOOLEAN :
          LET r == DetokenizeInternal(Flatten(parts), h, allow, caller, skip_auth, store, now)
          IN  /\ detok' = [parts |-> parts, handle |-> h, allow |-> allow, caller |-> caller,
                           skip_auth |-> skip_auth, at |-> now, status |-> r.status,
                           restored |-> r.restored, read |-> r.read]
              /\ audit' = audit \o r.recs
    /\ UNCHANGED <<store, now, hmacTab, sd, stream, rq, redacted, pol, px, calls, ts, fs, rt>>

NextDetok == AdvanceClock \/ DetokenizeCall

SpecDetok == InitDetok /\ [][NextDetok]_vars

\* The complete placeholders among the pieces of a payload.
PlaceholderPieces == {PhPii, PhSecret, PhOps, PhForeign}

\* The handle's entry as stored, when it exists and has not expired at time t.
LiveEntry(h, t) == h \in DOMAIN store /\ ~(store[h].exp < t)

\* What a piece of the payload becomes when exactly the categories of allow
\* may be restored from handle h at time t.
PieceRestored(p, h, t, allow) ==
    IF /\ p \in PlaceholderPieces
       /\ LiveEntry(h, t)
       /\ p \in DOMAIN store[h].meta
       /\ store[h].meta[p] \in allow
    THEN store[h].kv[p]
    ELSE p

PiecesRestored(parts, h, t, allow) ==
    Flatten([i \in 1..Len(parts) |-> PieceRestored(parts[i], h, t, allow)])

\* C3 (as claimed): whatever allow_categories holds, a secret placeholder is
\* never restored: the result is that of the allow-list without "secret".
C3_SecretNeverRestored ==
    detok.status = 200 =>
        detok.restored =
            PiecesRestored(detok.parts, detok.handle, detok.at, detok.allow \ {"secret"})

\* C9: a call that is not the proxy's and whose caller is not trusted is
\* answered 403, reads no token map, restores nothing and writes no audit
\* record; every other call is answered 200.
C9_UntrustedCallerRejected ==
    detok.status # 0 =>
        IF ~detok.skip_auth /\ detok.caller \notin {"incident-mgr", "runbook-executor"}
        THEN /\ detok.status = 403
             /\ detok.restored = <<>>
             /\ ~detok.read
             /\ audit = <<>>
        ELSE detok.status = 200

C9_Witness ==
    /\ detok.status = 403
    /\ detok.caller = "user1"
    /\ ~detok.skip_auth
    /\ detok.handle = StreamHandle
    /\ detok.parts = <<PhPii>>
    /\ "pii" \in detok.allow
    /\ detok.restored = <<>>

\* C10: each placeholder of the payload is replaced by its raw value exactly
\* when the live handle maps it to an allowed category; every other piece
\* of the payload is unchanged.
C10_CategoryFiltering ==
    detok.status = 200 =>
        detok.restored = PiecesRestored(detok.parts, detok.handle, detok.at, detok.allow)

C10_Witness ==
    /\ detok.status = 200
    /\ detok.handle = StreamHandle
    /\ detok.at < DefaultTtlSeconds * 1000
    /\ detok.allow = {"pii"}
    /\ detok.parts = <<PhPii, PhOps>>
    /\ detok.restored = <<"j","o","e">> \o PhOps

-----------------------------------------------------------------------------
(* The redact specification: one text with its pattern matches is redacted *)
(* by /redact and the sanitized payload is sent back to /detokenize by the *)
(* same trusted caller with every category allowed.                        *)

\* The characters of a text: pairwise different, so that the raw value of a
\* span occurs in the text at that span only, and none of them a character
\* of a placeholder.
TextOfLen(n) == SubSeq(<<"g", "h", "j", "m", "q", "r", "u", "v", "w", "x">>, 1, n)

\* Every span a pattern of some category can match in a text of n characters.
CandUniverse(n) ==
    {c \in [cat : Categories, s : 0..(n - 1), e : 1..n] : c.s < c.e}

RECURSIVE SetsUpTo(_, _)
SetsUpTo(U, k) ==
    IF k = 0 THEN {{}}
    ELSE LET S == SetsUpTo(U, k - 1)
         IN  S \cup {A \cup {x} : A \in S, x \in U}

InitRedact ==
    /\ store = EmptyMap
    /\ now = 1
    /\ ServerIdle
    /\ StreamIdle /\ PolicyIdle /\ ProxyIdle
    /\ \E n \in 1..MaxTextLen, conv \in {None, "INC-1"} :
          \E cands \in SetsUpTo(CandUniverse(n), MaxCands) :
             rq = [text |-> TextOfLen(n), cands |-> cands, conv |-> conv,
                   caller |-> "incident-mgr", phase |-> "new"]
    /\ redacted = NoRedact
    /\ detok = NoDetok

\* The <<scope, raw>> pairs whose digest a redact of the request computes.
DigestKeys(text, cands, conv) ==
    LET spans == FindSpans(cands)
    IN  {<<Scope(conv), Slice(text, spans[i].s, spans[i].e)>> : i \in 1..Len(spans)}

\* POST /redact
RedactCall ==
    /\ rq.phase = "new"
    /\ LET keys == DigestKeys(rq.text, rq.cands, rq.conv) \ DOMAIN hmacTab
       IN  \E fresh \in [keys -> Digests] :
              LET tab == [k \in DOMAIN hmacTab \cup keys |->
                             IF k \in keys THEN fresh[k] ELSE hmacTab[k]]
                  r == RedactInternal(rq.text, rq.cands, rq.conv, rq.caller, store, now, tab)
              IN  /\ hmacTab' = tab
                  /\ store' = r.store
                  /\ audit' = audit \o r.recs
                  /\ redacted' = [handle |-> r.token_map_handle,
                                  sanitized_payload |-> r.sanitized_payload,
                                  redactions |-> r.redactions,
                                  out |-> r.out]
    /\ rq' = [rq EXCEPT !.phase = "redacted"]
    /\ UNCHANGED <<now, sd, stream, detok, pol, px, calls, ts, fs, rt>>

\* POST /detokenize with the sanitized payload, its handle and every category.
DetokenizeSanitized ==
    /\ rq.phase = "redacted"
    /\ LET r == DetokenizeInternal(redacted.sanitized_payload, redacted.handle, Categories,
                                   rq.caller, FALSE, store, now)
       IN  /\ detok' = [parts |-> redacted.out, handle |-> redacted.handle,
                        allow |-> Categories, caller |-> rq.caller, skip_auth |-> FALSE,
                        at |-> now, status |-> r.status, restored |-> r.restored,
                        read |-> r.read]
           /\ audit' = audit \o r.recs
    /\ rq' = [rq EXCEPT !.phase = "done"]
    /\ UNCHANGED <<store, now, hmacTab, sd, stream, redacted, pol, px, calls, ts, fs, rt>>

NextRedact == RedactCall \/ DetokenizeSanitized

SpecRedact == InitRedact /\ [][NextRedact]_vars

\* s occurs in t as a contiguous substring.
IsSubstring(sub, t) ==
    \E i \in 1..(Len(t) - Len(sub) + 1) : SubSeq(t, i, i + Len(sub) - 1) = sub

\* The text with every redacted span of category secret replaced by its
\* placeholder and every other character as it was.
RECURSIVE SecretsMasked(_, _, _)
SecretsMasked(text, redactions, last) ==
    IF redactions = <<>> THEN Slice(text, last, Len(text))
    ELSE LET r == Head(redactions)
         IN  Slice(text, last, r.range[1])
                 \o (IF r.type = "secret" THEN r.placeholder
                     ELSE Slice(text, r.range[1], r.range[2]))
                 \o SecretsMasked(text, Tail(redactions), r.range[2])

\* C4 (as claimed): detokenizing the sanitized payload with its handle, a
\* trusted caller and all categories allowed yields the text again, except
\* that the secret spans stay placeholders.
C4_RoundTrip ==
    rq.phase = "done" =>
        /\ detok.status = 200
        /\ detok.restored = SecretsMasked(rq.text, redacted.redactions, 0)

\* C5 (as claimed): the raw text of no secret span the patterns matched is a
\* substring of the sanitized payload.
C5_NoSecretLeak ==
    rq.phase = "redacted" =>
        \A c \in rq.cands :
            c.cat = "secret" =>
                ~IsSubstring(Slice(rq.text, c.s, c.e), redacted.sanitized_payload)

\* C20: the spans find_spans returns for the matches of a redacted request
\* lie in the text, are sorted by start, and each starts after the one
\* before it ends, so the slices the redact walk takes between them are
\* never negative and never overlap.
C20_SpansSortedDisjoint ==
    rq.phase \notin {"idle", "new"} =>
        LET spans == FindSpans(rq.cands)
        IN  /\ Len(redacted.redactions) = Len(spans)
            /\ \A i \in 1..Len(spans) :
                   /\ redacted.redactions[i].range = <<spans[i].s, spans[i].e>>
                   /\ 0 <= spans[i].s /\ spans[i].s < spans[i].e /\ spans[i].e <= Len(rq.text)
            /\ \A i \in 1..(Len(spans) - 1) :
                   /\ spans[i].s < spans[i + 1].s
                   /\ spans[i].e < spans[i + 1].s

\* A redacted request with two spans kept, which the pattern loops had
\* collected in the other order.
C20_Witness ==
    /\ rq.phase = "redacted"
    /\ Len(FindSpans(rq.cands)) = 2
    /\ CollectSpans(rq.cands)[1].s > CollectSpans(rq.cands)[2].s
    /\ Len(redacted.redactions) = 2

\* Two matches that share at least one character of the text.
Overlap(c, d) == c.s < d.e /\ d.s < c.e

\* The spans find_spans keeps of a set of matches.
KeptSpans(cands) == {FindSpans(cands)[i] : i \in 1..Len(FindSpans(cands))}

\* C21 (as claimed): of two overlapping matches of a redacted request the one
\* of the higher-priority category wins: the lower-priority match is kept
\* only when the higher-priority one lost to a kept span of its own or a
\* higher priority.
C21_HigherPriorityWinsOverlap ==
    rq.phase \notin {"idle", "new"} =>
        \A c \in rq.cands, d \in rq.cands :
            (/\ Overlap(c, d)
             /\ CatRank(c.cat) < CatRank(d.cat)
             /\ d \in KeptSpans(rq.cands)) =>
                \E k \in KeptSpans(rq.cands) :
                    Overlap(k, c) /\ CatRank(k.cat) <= CatRank(c.cat)

\* C27: every placeholder in the redactions of a redact response is the
\* opening guillemet and token:, the category in upper case over [A-Z_], a
\* colon, four lowercase hex digits and the closing guillemet, and the
\* pattern of detokenize and of the streaming detokenizer matches it as one
\* placeholder from its first to its last character.
C27_PlaceholderWireFormat ==
    rq.phase \notin {"idle", "new"} =>
        \A i \in 1..Len(redacted.redactions) :
            LET ph == redacted.redactions[i].placeholder
                type == Upper(redacted.redactions[i].type)
                n == Len(type)
            IN  /\ Len(ph) = 7 + n + 6
                /\ SubSeq(ph, 1, 7) = TokenPrefix
                /\ SubSeq(ph, 8, 7 + n) = type
                /\ \A j \in 8..(7 + n) : ph[j] \in UpperClass
                /\ ph[8 + n] = ":"
                /\ \A j \in (9 + n)..(12 + n) : ph[j] \in HexClass
                /\ ph[13 + n] = RQ
                /\ FindIter(ph, 1) = <<<<1, Len(ph)>>>>

\* A redacted request with an ops_sensitive span, whose category has an
\* underscore, and a span of another category.
C27_Witness ==
    /\ rq.phase = "redacted"
    /\ Len(redacted.redactions) = 2
    /\ redacted.redactions[1].type = "ops_sensitive"
    /\ redacted.redactions[2].type = "secret"
    /\ FindIter(redacted.sanitized_payload, 1) # <<>>

C40_SpanCoverage ==
    rq.phase \notin {"idle", "new"} =>
        /\ \A c \in rq.cands \ KeptSpans(rq.cands) :
              \E k \in KeptSpans(rq.cands) : Overlap(k, c)
        /\ \A c \in rq.cands : \A pos \in c.s..(c.e - 1) :
              \E k \in KeptSpans(rq.cands) : k.s <= pos /\ pos < k.e
        /\ \A c \in rq.cands :
              (/\ \E k \in KeptSpans(rq.cands) : c.s = k.e
               /\ \A k \in KeptSpans(rq.cands) \ {c} : ~Overlap(k, c)) =>
                  c \in KeptSpans(rq.cands)

-----------------------------------------------------------------------------
(* Policy specification: an engine loaded with a document, decide calls on *)
(* it, and reloads after the file was edited.                              *)

PolicyCats == {"secret", "pii", "ops_sensitive", "export_control"}

ExternalTargets == {"external:openai:gpt-4", "external:azure_eu:gpt-4", "external:unspecified"}

\* The routes of the test policy.
SecretsBlock ==
    [name |-> "secrets_block", match_category |-> "secret", action |-> "block",
     allow_models |-> <<>>, allow_categories |-> {"ops_sensitive", "pii"},
     allow_detokenize |-> TRUE, regions |-> {"*"}, callers |-> {"*"}]

ExportControl ==
    [name |-> "export_control", match_category |-> "export_control", action |-> "internal_only",
     allow_models |-> <<"internal:llama3">>, allow_categories |-> {"ops_sensitive", "pii"},
     allow_detokenize |-> TRUE, regions |-> {"*"}, callers |-> {"*"}]

PiiUs ==
    [name |-> "pii_us", match_category |-> "pii", action |-> "redact",
     allow_models |-> <<"external:openai:gpt-4">>, allow_categories |-> {"pii", "ops_sensitive"},
     allow_detokenize |-> TRUE, regions |-> {"us"}, callers |-> {"*"}]

PiiEu ==
    [name |-> "pii_eu", match_category |-> "pii", action |-> "redact",
     allow_models |-> <<"external:azure_eu:gpt-4">>, allow_categories |-> {"pii"},
     allow_detokenize |-> TRUE, regions |-> {"eu"}, callers |-> {"*"}]

\* Routes a policy file may hold besides: a redact route for every region
\* that lists an external model, one that lists no model, and a catch-all
\* route without match.category.
PiiAny ==
    [name |-> "pii_any", match_category |-> "pii", action |-> "redact",
     allow_models |-> <<"external:openai:gpt-4">>, allow_categories |-> {"pii", "ops_sensitive"},
     allow_detokenize |-> TRUE, regions |-> {"*"}, callers |-> {"*"}]

OpsNoModels ==
    [name |-> "ops_redact", match_category |-> "ops_sensitive", action |-> "redact",
     allow_models |-> <<>>, allow_categories |-> {"ops_sensitive", "pii"},
     allow_detokenize |-> FALSE, regions |-> {"*"}, callers |-> {"*"}]

DefaultAllow ==
    [name |-> "default", match_category |-> None, action |-> "allow",
     allow_models |-> <<>>, allow_categories |-> {"ops_sensitive", "pii"},
     allow_detokenize |-> TRUE, regions |-> {"*"}, callers |-> {"*"}]

\* Catch-all routes with another action: a default deny and a default
\* redact.
DefaultBlock ==
    [name |-> "default_block", match_category |-> None, action |-> "block",
     allow_models |-> <<>>, allow_categories |-> {"ops_sensitive", "pii"},
     allow_detokenize |-> TRUE, regions |-> {"*"}, callers |-> {"*"}]

DefaultRedact ==
    [name |-> "default_redact", match_category |-> None, action |-> "redact",
     allow_models |-> <<"external:openai:gpt-4">>, allow_categories |-> {"pii"},
     allow_detokenize |-> TRUE, regions |-> {"*"}, callers |-> {"*"}]

\* geo_constraints.region_routing of the test policy, and the same with an
\* entry for the restricted regions that names no model.
RegionRoutingFixture ==
    [us |-> [allow_external |-> TRUE, preferred_models |-> <<"external:openai:gpt-4">>],
     eu |-> [allow_external |-> TRUE, preferred_models |-> <<"external:azure_eu:gpt-4">>],
     restricted |-> [allow_external |-> FALSE, preferred_models |-> <<"internal:llama3">>]]

PolicyDoc(region_routing, rest) ==
    [version |-> "2",
     restricted_regions |-> {"cn", "ru"},
     region_routing |-> region_routing,
     caller_routing |->
         ("incident-mgr" :> [allow_categories |-> {"pii", "ops_sensitive"}, max_detokenize |-> TRUE])
         @@ ("external-analyst" :> [allow_categories |-> {}, max_detokenize |-> FALSE,
                                    force_redact |-> TRUE]),
     routes |-> <<SecretsBlock>> \o rest]

\* The documents one edit of the file away from d: a route appended, the
\* last route removed, the entry for the restricted regions rewritten, the
\* version changed, or the file as it is.  The secrets_block route stays
\* first.
EditsOf(d) ==
    {d}
    \cup {[d EXCEPT !.routes = Append(d.routes, r)] :
             r \in {x \in {ExportControl, PiiUs, PiiEu, PiiAny, OpsNoModels,
                            DefaultAllow, DefaultBlock, DefaultRedact} :
                        Len(d.routes) <= MaxRoutes}}
    \cup {[d EXCEPT !.routes = SubSeq(d.routes, 1, Len(d.routes) - 1)] :
             k \in {x \in {1} : Len(d.routes) > 1}}
    \cup {[d EXCEPT !.region_routing = rr] :
             rr \in {RegionRoutingFixture,
                     [RegionRoutingFixture EXCEPT !.restricted = [allow_external |-> FALSE]]}}
    \cup {[d EXCEPT !.version = v] : v \in {"2", "3"}}

NoDecision == [raised |-> FALSE, action |-> "none"]

InitPolicy ==
    /\ store = EmptyMap
    /\ now = 1
    /\ ServerIdle
    /\ StreamIdle /\ RedactIdle /\ ProxyIdle
    /\ pol = [phase |-> "loaded", doc |-> PolicyDoc(RegionRoutingFixture, <<>>),
              cats |-> {}, ctx |-> [region |-> Missing, caller |-> Missing],
              decision |-> NoDecision]

\* decide(categories, context) on the loaded document; pol keeps the call
\* and its result until the next load.
PolicyDecide ==
    /\ pol.phase = "loaded"
    /\ \E cats \in SUBSET PolicyCats, region \in {"us", "eu", "cn", "CN", None, Missing},
          caller \in {"user1", "incident-mgr", "external-analyst", None} :
          LET ctx == [region |-> region, caller |-> caller]
          IN  pol' = [pol EXCEPT !.phase = "decided", !.cats = cats, !.ctx = ctx,
                                 !.decision = Decide(pol.doc, cats, ctx)]
    /\ UNCHANGED <<store, now, hmacTab, audit, sd, stream, rq, redacted, detok, px, calls, ts, fs, rt>>

\* reload(): self.doc becomes what the file holds now.
PolicyReload ==
    /\ \E d \in EditsOf(pol.doc) :
          pol' = [phase |-> "loaded", doc |-> d, cats |-> {},
                  ctx |-> [region |-> Missing, caller |-> Missing],
                  decision |-> NoDecision]
    /\ UNCHANGED <<store, now, hmacTab, audit, sd, stream, rq, redacted, detok, px, calls, ts, fs, rt>>

NextPolicy == PolicyDecide \/ PolicyReload

SpecPolicy == InitPolicy /\ [][NextPolicy]_vars

C7_RestrictedNeverExternal ==
    (/\ pol.phase = "decided"
     /\ pol.ctx.region \notin {None, Missing}
     /\ Lower(pol.ctx.region) \in pol.doc.restricted_regions
     /\ ~pol.decision.raised) =>
        pol.decision.target \notin ExternalTargets

\* The routes of the document decide stops at for a call: those that apply
\* to the context and either carry a match.category in cats or are a
\* catch-all block.
StopRoutes(routes, cats, ctx) ==
    {i \in 1..Len(routes) :
        /\ RouteApplies(routes[i], ctx)
        /\ \/ routes[i].match_category # None /\ routes[i].match_category \in cats
           \/ routes[i].match_category = None /\ routes[i].action = "block"}

\* The first of them in document order.
FirstStop(routes, cats, ctx) ==
    CHOOSE i \in StopRoutes(routes, cats, ctx) :
        \A j \in StopRoutes(routes, cats, ctx) : i <= j

\* C19: decide goes through the routes in document order and stops at the
\* first route that applies and whose match.category is in the categories,
\* or that is a block: the action is that route's, whatever catch-all routes
\* were applied before it, and the decision is the one of the document cut
\* after that route, so no later route is consulted.
C19_FirstCategoryRouteWins ==
    (pol.phase = "decided" /\ ~pol.decision.raised
     /\ StopRoutes(pol.doc.routes, pol.cats, pol.ctx) # {}) =>
        LET k == FirstStop(pol.doc.routes, pol.cats, pol.ctx)
        IN  /\ pol.decision.action = pol.doc.routes[k].action
            /\ pol.decision =
                   Decide([pol.doc EXCEPT !.routes = SubSeq(pol.doc.routes, 1, k)],
                          pol.cats, pol.ctx)

\* A decide call on a document whose catch-all redact route comes before
\* the export_control route, with export_control among the categories: the
\* catch-all was applied and the category route set the action.
C19_Witness ==
    /\ pol.phase = "decided"
    /\ pol.doc.routes = <<SecretsBlock, DefaultRedact, ExportControl>>
    /\ "export_control" \in pol.cats
    /\ "secret" \notin pol.cats
    /\ ~pol.decision.raised
    /\ pol.decision.action = "internal_only"
    /\ pol.decision.allowed_categories # {"ops_sensitive", "pii"}

\* The routes of the document that apply to the context and whose
\* match.category is in the categories or absent.
AppliedRoutes(routes, cats, ctx) ==
    {i \in 1..Len(routes) :
        /\ RouteApplies(routes[i], ctx)
        /\ routes[i].match_category \in cats \cup {None}}

DecidingRoute(routes, cats, ctx) ==
    LET stops == StopRoutes(routes, cats, ctx)
        upto == IF stops = {} THEN Len(routes) ELSE FirstStop(routes, cats, ctx)
        seen == {i \in AppliedRoutes(routes, cats, ctx) : i <= upto}
    IN  routes[CHOOSE i \in seen : \A j \in seen : j <= i]

\* C33: the allowed_categories of a redact decision are the categories of
\* the deciding route that the caller's constraint allows too, and all of
\* the route's categories for a caller without such a constraint.
C33_AllowedCategoriesIntersect ==
    (pol.phase = "decided" /\ ~pol.decision.raised /\ pol.decision.action = "redact") =>
        LET route == DecidingRoute(pol.doc.routes, pol.cats, pol.ctx)
            constrained ==
                /\ pol.ctx.caller \in DOMAIN pol.doc.caller_routing
                /\ "allow_categories" \in DOMAIN pol.doc.caller_routing[pol.ctx.caller]
        IN  /\ route.action = "redact"
            /\ pol.decision.allowed_categories \subseteq route.allow_categories
            /\ pol.decision.allowed_categories =
                   IF constrained
                   THEN route.allow_categories
                            \cap pol.doc.caller_routing[pol.ctx.caller]["allow_categories"]
                   ELSE route.allow_categories

\* A pii call of incident-mgr, who may see pii and ops_sensitive, from the
\* EU on a document with the EU route, which allows pii only.
C33_Witness ==
    /\ pol.phase = "decided"
    /\ ~pol.decision.raised
    /\ pol.decision.action = "redact"
    /\ pol.ctx.caller = "incident-mgr"
    /\ pol.ctx.region = "eu"
    /\ \E i \in 1..Len(pol.doc.routes) : pol.doc.routes[i] = PiiEu
    /\ pol.decision.allowed_categories = {"pii"}

-----------------------------------------------------------------------------
(* Reload specification: decide runs in a worker thread of the sync         *)
(* endpoints while another thread calls reload.  decide reads self.doc once *)
(* in _get_caller_constraints, once in _get_region_routing, once for the    *)
(* version and once for the routes; each read is a step of its own, and a   *)
(* reload may run between any two of them.                                  *)

UnchangedButPolicy ==
    UNCHANGED <<store, now, hmacTab, audit, sd, stream, rq, redacted, detok, px, calls, ts, fs, rt>>

InitReload ==
    /\ store = EmptyMap
    /\ now = 1
    /\ ServerIdle
    /\ StreamIdle /\ RedactIdle /\ ProxyIdle
    /\ pol = [phase |-> "loaded", doc |-> PolicyDoc(RegionRoutingFixture, <<PiiAny>>),
              seen |-> {}, cats |-> {}, ctx |-> [region |-> Missing, caller |-> Missing],
              caller_constraints |-> EmptyMap, region_routing |-> EmptyMap,
              version |-> None, decision |-> NoDecision]

\* decide up to the return of _get_caller_constraints: the first read of
\* self.doc.  pol.seen collects the documents self.doc holds during the call.
DecideCallerConstraints ==
    /\ pol.phase \in {"loaded", "decided"}
    /\ \E cats \in {{}, {"pii"}, {"ops_sensitive"}}, region \in {"us", "cn"},
          caller \in {"user1", "external-analyst"} :
          pol' = [pol EXCEPT !.phase = "constraints", !.seen = {pol.doc},
                             !.cats = cats, !.ctx = [region |-> region, caller |-> caller],
                             !.caller_constraints = GetCallerConstraints(pol.doc, caller),
                             !.region_routing = EmptyMap, !.version = None,
                             !.decision = NoDecision]
    /\ UnchangedButPolicy

\* _get_region_routing(region): the second read of self.doc.
DecideRegionRouting ==
    /\ pol.phase = "constraints"
    /\ pol' = [pol EXCEPT !.phase = "routing",
                          !.region_routing = GetRegionRouting(pol.doc, pol.ctx.region)]
    /\ UnchangedButPolicy

\* The default decision: the third read of self.doc, for the version.
DecideVersion ==
    /\ pol.phase = "routing"
    /\ pol' = [pol EXCEPT !.phase = "version", !.version = pol.doc.version]
    /\ UnchangedButPolicy

\* The route loop: the fourth read of self.doc, for the list of routes.
DecideRoutes ==
    /\ pol.phase = "version"
    /\ LET decision == [raised |-> FALSE,
                        action |-> "allow",
                        target |-> "internal:default",
                        requires_redaction |->
                            IF "force_redact" \in DOMAIN pol.caller_constraints
                            THEN pol.caller_constraints["force_redact"] ELSE FALSE,
                        allow_detokenize |-> TRUE,
                        allowed_categories |-> {"ops_sensitive", "pii"},
                        policy_version |-> pol.version]
       IN  pol' = [pol EXCEPT !.phase = "decided",
                              !.decision = RouteLoop(pol.doc.routes, decision, pol.cats, pol.ctx,
                                                     pol.caller_constraints, pol.region_routing)]
    /\ UnchangedButPolicy

\* reload() in another thread: self.doc becomes what the file holds now,
\* the test policy or an edit of it with another version, no caller rules,
\* no entry for the restricted regions and other routes.
ReloadConcurrent ==
    /\ \E d \in {PolicyDoc(RegionRoutingFixture, <<PiiAny>>),
                 [PolicyDoc(RegionRoutingFixture, <<PiiAny>>) EXCEPT !.version = "3"],
                 [PolicyDoc([us |-> RegionRoutingFixture.us], <<OpsNoModels, DefaultRedact>>)
                     EXCEPT !.version = "3", !.caller_routing = EmptyMap]} :
          /\ d # pol.doc
          /\ pol' = [pol EXCEPT !.doc = d,
                                !.seen = IF pol.phase \in {"loaded", "decided"}
                                         THEN pol.seen ELSE pol.seen \cup {d}]
    /\ UnchangedButPolicy

NextReload ==
    \/ DecideCallerConstraints
    \/ DecideRegionRouting
    \/ DecideVersion
    \/ DecideRoutes
    \/ ReloadConcurrent

SpecReload == InitReload /\ [][NextReload]_vars

\* C36 (as claimed): the decision a decide call returns is the decision of
\* one of the documents the engine held during the call, whatever reloads
\* ran meanwhile.
C36_DecisionFromOneDocument ==
    pol.phase = "decided" =>
        \E d \in pol.seen : pol.decision = Decide(d, pol.cats, pol.ctx)

-----------------------------------------------------------------------------
(* Transparent proxy (TransparentProxyHandler.process_request behind       *)
(* /v1/chat/completions): redact every message, forward the sanitized      *)
(* body, detokenize the reply with the last handle.                        *)

\* The loop with the text of the message, not the sanitized payload, put
\* in the sanitized message.
RECURSIVE ProxyRedactLoopKeepText(_, _, _, _, _, _, _)
ProxyRedactLoopKeepText(msgs, ticks, conv, caller, st, t, tab) ==
    IF msgs = <<>>
    THEN [sanitized |-> <<>>, handles |-> <<>>, store |-> st, recs |-> <<>>, t |-> t]
    ELSE LET m == Head(msgs)
             r == RedactInternal(m.text, m.cands, conv, caller, st, t, tab)
             rest == ProxyRedactLoopKeepText(Tail(msgs), Tail(ticks), conv, caller,
                                             IF m.text = <<>> THEN st ELSE r.store,
                                             IF m.text = <<>> THEN t ELSE t + Head(ticks), tab)
         IN  [rest EXCEPT !.sanitized = <<m.text>> \o rest.sanitized,
                          !.handles = <<IF m.text = <<>> THEN NoHandle ELSE r.token_map_handle>>
                                          \o rest.handles,
                          !.recs = (IF m.text = <<>> THEN <<>> ELSE r.recs) \o rest.recs]

\* The loop over the messages.  redact_internal raises only for a payload
\* over the size limit; the messages here are within it, so the except
\* branch with its 403 is never entered.  ticks[i] is the time the clock
\* advances after message i.
RECURSIVE ProxyRedactLoop(_, _, _, _, _, _, _)
ProxyRedactLoop(msgs, ticks, conv, caller, st, t, tab) ==
    IF msgs = <<>>
    THEN [sanitized |-> <<>>, handles |-> <<>>, store |-> st, recs |-> <<>>, t |-> t]
    ELSE LET m == Head(msgs)
         IN  IF m.text = <<>>
             THEN LET rest == ProxyRedactLoop(Tail(msgs), Tail(ticks), conv, caller, st, t, tab)
                  IN  [rest EXCEPT !.sanitized = <<m.text>> \o rest.sanitized,
                                   !.handles = <<NoHandle>> \o rest.handles]
             ELSE LET r == RedactInternal(m.text, m.cands, conv, caller, st, t, tab)
                      rest == ProxyRedactLoop(Tail(msgs), Tail(ticks), conv, caller,
                                              r.store, t + Head(ticks), tab)
                  IN  [rest EXCEPT !.sanitized = <<r.sanitized_payload>> \o rest.sanitized,
                                   !.handles = <<r.token_map_handle>> \o rest.handles,
                                   !.recs = r.recs \o rest.recs]

\* next((h for h in reversed(token_handles) if h), None)
RECURSIVE ActiveHandle(_)
ActiveHandle(handles) ==
    IF handles = <<>> THEN NoHandle
    ELSE IF handles[Len(handles)] # NoHandle THEN handles[Len(handles)]
    ELSE ActiveHandle(SubSeq(handles, 1, Len(handles) - 1))

\* _detokenize_text: detokenize_internal with skip_auth=True and the
\* categories pii and ops_sensitive.
DetokenizeText(text, h, caller, st, t) ==
    DetokenizeInternal(text, h, ProxyAllow, caller, TRUE, st, t)

RECURSIVE SeqsUpTo(_, _)
SeqsUpTo(U, k) ==
    IF k = 0 THEN {<<>>}
    ELSE LET S == SeqsUpTo(U, k - 1)
         IN  S \cup {Append(q, x) : q \in S, x \in U}

\* The conversation id of the context: the x-mcp-conversation-id header.
\* A message: its text and the spans the patterns match in it.
InitProxy ==
    /\ store = EmptyMap
    /\ now = 1
    /\ ServerIdle
    /\ StreamIdle /\ RedactIdle /\ PolicyIdle
    /\ \E msgs \in SeqsUpTo(UNION {{[text |-> TextOfLen(n), cands |-> c] :
                                        c \in SetsUpTo(CandUniverse(n), MaxCands)} :
                                    n \in 0..MaxMsgLen},
                            MaxMessages) \ {<<>>},
          conv \in {"INC-1"} :
          px = [phase |-> "new", messages |-> msgs, conv |-> conv, caller |-> "openai-proxy",
                sanitized |-> <<>>, handles |-> <<>>, status |-> 0, forwarded |-> FALSE,
                upstream |-> "none", upstream_status |-> 0,
                active |-> NoHandle, reply |-> <<>>, response |-> <<>>]

\* process_request up to the await of forward_request: the upstream
\* provider is sent the body with the sanitized messages.
ProxyRequest ==
    /\ px.phase = "new"
    /\ LET keys == UNION {DigestKeys(px.messages[i].text, px.messages[i].cands, px.conv) :
                             i \in 1..Len(px.messages)} \ DOMAIN hmacTab
       IN  \E fresh \in [keys -> Digests], ticks \in [1..Len(px.messages) -> {0, 1}] :
              LET tab == [k \in DOMAIN hmacTab \cup keys |->
                             IF k \in keys THEN fresh[k] ELSE hmacTab[k]]
                  r == ProxyRedactLoop(px.messages, ticks, px.conv, px.caller, store, now, tab)
              IN  /\ hmacTab' = tab
                  /\ store' = r.store
                  /\ now' = r.t
                  /\ audit' = audit \o r.recs
                  /\ px' = [px EXCEPT !.phase = "forwarded", !.sanitized = r.sanitized,
                                      !.handles = r.handles, !.forwarded = TRUE]
    /\ UNCHANGED <<sd, stream, rq, redacted, detok, pol, calls, ts, fs, rt>>

\* The texts the upstream provider may answer with: nothing, a text of its
\* own, or a message it was sent.
\* forward_request returned 200: the reply is detokenized with the active
\* handle and returned.
ProxyResponse ==
    /\ px.phase = "forwarded"
    /\ \E reply \in ({<<>>, <<"h">>} \cup {px.sanitized[idx] : idx \in 1..Len(px.sanitized)}) :
          LET h == ActiveHandle(px.handles)
          IN  IF reply # <<>> /\ h # NoHandle
              THEN LET r == DetokenizeText(reply, h, px.caller, store, now)
                   IN  /\ px' = [px EXCEPT !.phase = "responded", !.status = 200,
                                           !.upstream = "status", !.upstream_status = 200,
                                           !.active = h,
                                           !.reply = reply, !.response = r.restored]
                       /\ audit' = audit \o r.recs
              ELSE /\ px' = [px EXCEPT !.phase = "responded", !.status = 200,
                                       !.upstream = "status", !.upstream_status = 200,
                                       !.reply = reply, !.response = reply]
                   /\ audit' = audit
    /\ UNCHANGED <<store, now, hmacTab, sd, stream, rq, redacted, detok, pol, calls, ts, fs, rt>>

\* forward_request got a status other than 200 and raises it.
ProxyUpstreamError ==
    /\ px.phase = "forwarded"
    /\ \E code \in {429, 500} :
          px' = [px EXCEPT !.phase = "failed", !.status = code,
                           !.upstream = "status", !.upstream_status = code]
    /\ UNCHANGED <<store, now, hmacTab, audit, sd, stream, rq, redacted, detok, pol, calls, ts, fs, rt>>

\* http_client.post raised: the connection failed, or the call ran into the
\* client's timeout.  The exception is no HTTPException and leaves
\* process_request; proxy_openai_chat turns it into a 500.
ProxyUpstreamFailure ==
    /\ px.phase = "forwarded"
    /\ \E kind \in {"connect_error", "timeout"} :
          px' = [px EXCEPT !.phase = "failed", !.status = 500, !.upstream = kind]
    /\ UNCHANGED <<store, now, hmacTab, audit, sd, stream, rq, redacted, detok, pol, calls, ts, fs, rt>>

NextProxy == ProxyRequest \/ ProxyResponse \/ ProxyUpstreamError \/ ProxyUpstreamFailure

SpecProxy == InitProxy /\ [][NextProxy]_vars

\* A message of the request in which the detector finds a secret span.
HasSecretContent(msgs) ==
    \E i \in 1..Len(msgs) :
        LET spans == FindSpans(msgs[i].cands)
        IN  \E j \in 1..Len(spans) : spans[j].cat = "secret"

\* C8 (as claimed): a proxied request with secret content in a message is
\* answered 403 and is never forwarded to the upstream provider.
C8_SecretRequestBlocked ==
    (px.phase \notin {"idle", "new"} /\ HasSecretContent(px.messages)) =>
        /\ px.status = 403
        /\ ~px.forwarded

\* C25 (as claimed): a proxied request whose upstream call answered with a
\* status other than 200 is answered with that status, one whose upstream
\* connection failed with 502, and one whose upstream call ran into its
\* deadline with 504.
C25_UpstreamFailureMapping ==
    px.phase = "failed" =>
        /\ px.upstream = "status" => px.status = px.upstream_status
        /\ px.upstream = "connect_error" => px.status = 502
        /\ px.upstream = "timeout" => px.status = 504

-----------------------------------------------------------------------------
(* The paths specification: one proxied request taken through the batch    *)
(* path (process_request) or the streaming path                            *)
(* (process_streaming_request), whose redact loops are the same, while     *)
(* another client calls /redact once, before, during or after it.          *)

\* The request: messages without text, with a pii span, and with a pii and
\* a secret span that do not touch.  rq is the other client's request.
InitPaths ==
    /\ store = EmptyMap
    /\ now = 1
    /\ ServerIdle
    /\ StreamIdle /\ PolicyIdle
    /\ rq = [text |-> <<"x">>, cands |-> {[cat |-> "pii", s |-> 0, e |-> 1]}, conv |-> "INC-2",
             caller |-> "user1", phase |-> "new"]
    /\ redacted = NoRedact
    /\ detok = NoDetok
    /\ \E msgs \in SeqsUpTo({[text |-> <<>>, cands |-> {}],
                             [text |-> TextOfLen(1), cands |-> {[cat |-> "pii", s |-> 0, e |-> 1]}],
                             [text |-> TextOfLen(MaxTextLen),
                              cands |-> {[cat |-> "pii", s |-> 0, e |-> 1],
                                         [cat |-> "secret", s |-> MaxTextLen - 1, e |-> MaxTextLen]}]},
                            MaxMessages) \ {<<>>} :
          px = [phase |-> "new", messages |-> msgs, conv |-> "INC-1", caller |-> "openai-proxy",
                sanitized |-> <<>>, handles |-> <<>>, status |-> 0, forwarded |-> FALSE,
                upstream |-> "none", upstream_status |-> 0,
                active |-> NoHandle, reply |-> <<>>, response |-> <<>>]

\* process_streaming_request from the active handle on: the upstream stream
\* answers with a text of its own, a placeholder of no handle, or a message
\* it was sent.  Without a handle stream_request is given None in place of
\* the detokenizer and fails at the first line that needs it.
StreamStart ==
    /\ px.phase = "forwarded"
    /\ stream.phase = "idle"
    /\ \E reply \in ({<<"h">>, PhForeign \o <<"h">>}
                        \cup {px.sanitized[idx] : idx \in 1..Len(px.sanitized)}) \ {<<>>} :
          LET h == ActiveHandle(px.handles)
          IN  /\ px' = [px EXCEPT !.phase = "streaming", !.upstream = "status",
                                  !.upstream_status = 200, !.active = h, !.reply = reply]
              /\ sd' = [token_handle |-> h, buffer |-> <<>>]
              /\ stream' = [parts |-> <<reply>>, input |-> reply, rest |-> reply, out |-> <<>>,
                            phase |-> IF h = NoHandle THEN "crashed" ELSE "streaming"]
    /\ UNCHANGED <<store, now, hmacTab, audit, rq, redacted, detok, pol, calls, ts, fs, rt>>

NextPaths ==
    \/ ProxyRequest
    \/ ProxyResponse
    \/ RedactCall
    \/ StreamStart
    \/ StreamChunk
    \/ StreamFlush

SpecPaths == InitPaths /\ [][NextPaths]_vars

\* The placeholders a redact of message m of the proxied request mints.
MintedFor(m) ==
    {TokenPlaceholder(Upper(x.cat), Slice(m.text, x.s, x.e), Scope(px.conv), hmacTab) :
        x \in KeptSpans(m.cands)}

\* The placeholders that occur in a text.
PlaceholdersIn(text) ==
    {SubSeq(text, FindIter(text, 1)[k][1], FindIter(text, 1)[k][2]) :
        k \in 1..Len(FindIter(text, 1))}

\* The index of the last message with text, 0 when no message has any.
LastTextIndex(msgs) ==
    IF \A i \in 1..Len(msgs) : msgs[i].text = <<>> THEN 0
    ELSE CHOOSE i \in 1..Len(msgs) :
             /\ msgs[i].text # <<>>
             /\ \A j \in (i + 1)..Len(msgs) : msgs[j].text = <<>>

\* C31: what either proxy path has delivered holds the raw value of a secret
\* span of the request only where the upstream reply held it, and once the
\* response is complete every placeholder of the reply that is of category
\* secret, or that no handle knows, stands in it unchanged.
C31_NoSecretRestored ==
    LET batch == px.phase = "responded"
        streamed == px.phase = "streaming" /\ stream.phase \in {"streaming", "flushed"}
        delivered == IF batch THEN px.response ELSE stream.out
    IN  (batch \/ streamed) =>
            /\ \A i \in 1..Len(px.messages) : \A x \in KeptSpans(px.messages[i].cands) :
                  x.cat = "secret" =>
                      (IsSubstring(Slice(px.messages[i].text, x.s, x.e), delivered)
                          => IsSubstring(Slice(px.messages[i].text, x.s, x.e), px.reply))
            /\ (batch \/ stream.phase = "flushed") =>
                  \A p \in PlaceholdersIn(px.reply) :
                      (SubSeq(p, 8, 13) = Upper("secret") \/ p = PhForeign)
                          => IsSubstring(p, delivered)

\* A stream that has ended: the reply was the sanitized message with a pii
\* and a secret placeholder, the pii value was restored and the secret
\* placeholder was not.
C31_Witness ==
    /\ px.phase = "streaming"
    /\ stream.phase = "flushed"
    /\ \E p \in PlaceholdersIn(px.reply) : SubSeq(p, 8, 13) = Upper("secret")
    /\ IsSubstring(TextOfLen(1), stream.out)
    /\ stream.out # stream.input

\* C34: once the upstream request of the proxied request is sent, every
\* message with text has gone through redact (it has a handle and its audit
\* record is written) and stands in the forwarded body as its sanitized
\* text, each span redact kept replaced by its placeholder.
C34_ForwardedAfterRedact ==
    px.forwarded =>
        /\ Len(px.sanitized) = Len(px.messages)
        /\ Cardinality({k \in 1..Len(audit) :
                           audit[k].action = "redact" /\ audit[k].caller = px.caller})
              = Cardinality({i \in 1..Len(px.messages) : px.messages[i].text # <<>>})
        /\ \A i \in 1..Len(px.messages) :
              px.messages[i].text # <<>> =>
                  /\ px.handles[i] # NoHandle
                  /\ px.sanitized[i] # px.messages[i].text
                  /\ \A x \in KeptSpans(px.messages[i].cands) :
                        ~IsSubstring(Slice(px.messages[i].text, x.s, x.e), px.sanitized[i])
                  /\ \A p \in MintedFor(px.messages[i]) : IsSubstring(p, px.sanitized[i])

\* A forwarded request of two messages with text, one of them with a
\* secret span.
C34_Witness ==
    /\ px.phase = "forwarded"
    /\ Len(px.messages) = 2
    /\ px.messages[1].text = TextOfLen(MaxTextLen)
    /\ px.messages[2].text = TextOfLen(1)
    /\ px.handles[1] # px.handles[2]

\* C35 (as claimed): at every step that detokenizes the response, the
\* batch call or a chunk of the stream, the handle used is the handle of
\* the last message with text and its token map holds the placeholders
\* minted for that message and no other.
C35_ActiveHandleOfLastMessage ==
    [][((px.phase = "forwarded" /\ px'.phase = "responded" /\ px'.active # NoHandle)
           \/ (stream.phase = "streaming" /\ stream' # stream)) =>
          LET i == LastTextIndex(px.messages)
              h == IF px'.phase = "responded" THEN px'.active ELSE sd.token_handle
          IN  /\ i > 0
              /\ h = px.handles[i]
              /\ DOMAIN StoreAll(store, h, now).kv = MintedFor(px.messages[i])]_vars

-----------------------------------------------------------------------------
(* The calls specification: a series of /redact calls, each on one of a    *)
(* few requests, under several conversation ids, the clock advancing       *)
(* between two calls or not.                                               *)

InitCalls ==
    /\ store = EmptyMap
    /\ now = 1
    /\ hmacTab = EmptyMap
    /\ audit = <<>>
    /\ calls = <<>>
    /\ StoresIdle /\ DetectIdle /\ RouteIdle
    /\ StreamIdle /\ RedactIdle /\ PolicyIdle /\ ProxyIdle

\* context.conversation_id of a call.
\* The payloads of the calls with the spans the patterns match in them: a
\* text with one pii value, and a text with the same value and a second one.
\* POST /redact; calls keeps the request, the response and the token map
\* stored under the returned handle when the call returns.
RedactAgain ==
    /\ Len(calls) < MaxCalls
    /\ \E p \in {[text |-> TextOfLen(1), cands |-> {[cat |-> "pii", s |-> 0, e |-> 1]}],
                 [text |-> TextOfLen(3), cands |-> {[cat |-> "pii", s |-> 0, e |-> 1],
                                                    [cat |-> "pii", s |-> 2, e |-> 3]}]},
          conv \in {"", "default", "INC-1"} :
          LET keys == DigestKeys(p.text, p.cands, conv) \ DOMAIN hmacTab
          IN  \E fresh \in [keys -> Digests] :
                 LET tab == [k \in DOMAIN hmacTab \cup keys |->
                                IF k \in keys THEN fresh[k] ELSE hmacTab[k]]
                     r == RedactInternal(p.text, p.cands, conv, "incident-mgr", store, now, tab)
                 IN  /\ hmacTab' = tab
                     /\ store' = r.store
                     /\ audit' = audit \o r.recs
                     /\ calls' = Append(calls,
                                    [text |-> p.text, cands |-> p.cands, conv |-> conv,
                                     at |-> now,
                                     handle |-> r.token_map_handle,
                                     sanitized_payload |-> r.sanitized_payload,
                                     redactions |-> r.redactions,
                                     map |-> r.store[r.token_map_handle]])
    /\ UNCHANGED <<now, sd, stream, rq, redacted, detok, pol, px, ts, fs, rt>>

\* A millisecond passes between two calls.
CallsTick ==
    /\ calls # <<>>
    /\ Len(calls) < MaxCalls
    /\ now = calls[Len(calls)].at
    /\ now' = now + 1
    /\ UNCHANGED <<store, hmacTab, audit, sd, stream, rq, redacted, detok, pol, px, calls, ts, fs, rt>>

NextCalls == RedactAgain \/ CallsTick

SpecCalls == InitCalls /\ [][NextCalls]_vars

\* C11: two redact calls on the same text under the same conversation id
\* return the same sanitized payload, whatever calls ran between them.
C11_SameConversationSamePayload ==
    \A i, j \in 1..Len(calls) :
        (calls[i].text = calls[j].text /\ calls[i].cands = calls[j].cands
            /\ calls[i].conv = calls[j].conv) =>
            calls[i].sanitized_payload = calls[j].sanitized_payload

\* The same text redacted twice under one conversation, with a call on
\* another text of that conversation between the two.
C11_Witness ==
    /\ Len(calls) = 3
    /\ calls[1].text = TextOfLen(3) /\ calls[3].text = TextOfLen(3)
    /\ calls[2].text = TextOfLen(1)
    /\ calls[1].conv = "INC-1" /\ calls[2].conv = "INC-1" /\ calls[3].conv = "INC-1"
    /\ Len(calls[3].redactions) = 2
    /\ calls[1].sanitized_payload = calls[3].sanitized_payload

\* The raw value a redaction event of a call stands for.
RawOf(call, k) == Slice(call.text, call.redactions[k].range[1], call.redactions[k].range[2])

\* C12 (as claimed): a raw value redacted under two different conversation
\* ids gets two different placeholders.
C12_ConversationsGetDistinctPlaceholders ==
    \A i, j \in 1..Len(calls) :
        calls[i].conv # calls[j].conv =>
            \A a \in 1..Len(calls[i].redactions), b \in 1..Len(calls[j].redactions) :
                (/\ RawOf(calls[i], a) = RawOf(calls[j], b)
                 /\ calls[i].redactions[a].type = calls[j].redactions[b].type) =>
                    calls[i].redactions[a].placeholder # calls[j].redactions[b].placeholder

\* C13 (as claimed): the token map under the handle a redact call returned
\* stays what it was when the call returned, whatever redact calls follow.
C13_HandleOwnedByOneCall ==
    \A i \in 1..Len(calls) :
        /\ calls[i].handle \in DOMAIN store
        /\ store[calls[i].handle] = calls[i].map

-----------------------------------------------------------------------------
(* The two token-store backends.  A Redis record is [exp, kv, meta] like   *)
(* an in-memory one; exp is the instant (ms) the key expires at, NoExpiry  *)
(* for a key stored without a time to live.                                *)

NoExpiry == -1

TickMs == 250

\* InMemoryTokenStore.create(ttl_seconds)
MemCreate(st, t, ttl) ==
    [h \in DOMAIN st \cup {t} |->
        IF h = t THEN [exp |-> t + ttl * 1000, kv |-> EmptyMap, meta |-> EmptyMap]
        ELSE st[h]]

\* InMemoryTokenStore.put: KeyError for a handle not in _maps; an expired
\* handle that cleanup has not removed is written to.
MemPut(st, h, key, value, meta) ==
    IF h \notin DOMAIN st THEN [st |-> st, res |-> "KeyError"]
    ELSE [st |-> StorePut(st, h, key, value, meta), res |-> "ok"]

\* InMemoryTokenStore.get
MemGet(st, h, key, t) ==
    LET e == IF h \in DOMAIN st THEN st[h]
             ELSE [exp |-> 0, kv |-> EmptyMap, meta |-> EmptyMap]
    IN  IF e.exp < t THEN None
        ELSE IF key \in DOMAIN e.kv THEN e.kv[key] ELSE None

\* cleanup that also drops the maps expiring at this instant.
MemCleanupAtExpiry(st, t) == [h \in {x \in DOMAIN st : st[x].exp > t} |-> st[h]]

\* InMemoryTokenStore.cleanup
MemCleanup(st, t) == [h \in {x \in DOMAIN st : ~(st[x].exp < t)} |-> st[h]]

\* The key tokenmap:<handle> exists in Redis at time t.
RedisLive(rs, h, t) == h \in DOMAIN rs /\ (rs[h].exp = NoExpiry \/ ~(rs[h].exp < t))

\* RedisTokenStore.create: SETEX of an empty record.
RedisCreate(rs, t, ttl) ==
    [h \in DOMAIN rs \cup {t} |->
        IF h = t THEN [exp |-> t + ttl * 1000, kv |-> EmptyMap, meta |-> EmptyMap]
        ELSE rs[h]]

\* What TTL replies at time t: -2 for no key, -1 for a key without expiry,
\* else the remaining time in whole seconds, rounded one way or the other.
TtlReplies(rs, h, t) ==
    IF ~RedisLive(rs, h, t) THEN {-2}
    ELSE IF rs[h].exp = NoExpiry THEN {-1}
    ELSE {(rs[h].exp - t) \div 1000, (rs[h].exp - t + 500) \div 1000}

\* RedisTokenStore.put: GET at time t, TTL at time t2 replying ttl, then
\* SETEX with that ttl when it is positive and SET without expiry otherwise.
RedisPut(rs, h, key, value, meta, t, t2, ttl) ==
    IF ~RedisLive(rs, h, t) THEN [st |-> rs, res |-> "KeyError"]
    ELSE [st |-> [rs EXCEPT ![h] = [exp |-> IF ttl > 0 THEN t2 + ttl * 1000 ELSE NoExpiry,
                                    kv |-> MapPut(rs[h].kv, key, value),
                                    meta |-> MapPut(rs[h].meta, key, meta)]],
          res |-> "ok"]

\* RedisTokenStore.get
RedisGet(rs, h, key, t) ==
    IF ~RedisLive(rs, h, t) THEN None
    ELSE IF key \in DOMAIN rs[h].kv THEN rs[h].kv[key] ELSE None

\* RedisTokenStore.all
RedisAll(rs, h, t) ==
    IF ~RedisLive(rs, h, t) THEN [kv |-> EmptyMap, meta |-> EmptyMap]
    ELSE [kv |-> rs[h].kv, meta |-> rs[h].meta]

-----------------------------------------------------------------------------
(* The store specification: the same calls are made on an in-memory store  *)
(* and on a Redis store, and ts.res keeps what each of them answered.      *)

StoreTtlSeconds == 1        \* the ttl_seconds every create of the run is given

StoreKeys == {PhPii, PhOps}

InitStore ==
    /\ store = EmptyMap
    /\ now = 0
    /\ hmacTab = EmptyMap
    /\ audit = <<>>
    /\ CallsIdle /\ DetectIdle /\ RouteIdle
    /\ StreamIdle /\ RedactIdle /\ PolicyIdle /\ ProxyIdle
    /\ ts = [phase |-> "run", mem |-> EmptyMap, redis |-> EmptyMap, creates |-> 0,
             res |-> [op |-> "init", h |-> NoHandle, key |-> <<>>, mem |-> "ok", redis |-> "ok"]]

\* The handles a call may name: those created, and one never created.
StoreHandles == DOMAIN ts.mem \cup DOMAIN ts.redis \cup {UnknownHandle}

UnchangedButStore ==
    UNCHANGED <<store, hmacTab, audit, sd, stream, rq, redacted, detok, pol, px, calls, fs, rt>>

TsCreate ==
    /\ ts.creates < MaxCreates
    /\ ts' = [ts EXCEPT !.mem = MemCreate(ts.mem, now, StoreTtlSeconds),
                        !.redis = RedisCreate(ts.redis, now, StoreTtlSeconds),
                        !.creates = ts.creates + 1,
                        !.res = [op |-> "create", h |-> now, key |-> <<>>,
                                 mem |-> "ok", redis |-> "ok"]]
    /\ UNCHANGED now
    /\ UnchangedButStore

\* put on both stores; on Redis d ticks pass between the GET and the TTL.
TsPut ==
    /\ \E h \in StoreHandles, key \in StoreKeys, value \in {"alice", "bob"}, d \in {0, 1} :
          /\ now + d * TickMs <= MaxTicks * TickMs
          /\ \E ttl \in TtlReplies(ts.redis, h, now + d * TickMs) :
                LET m == MemPut(ts.mem, h, key, value, "pii")
                    r == RedisPut(ts.redis, h, key, value, "pii", now, now + d * TickMs, ttl)
                IN  /\ ts' = [ts EXCEPT !.mem = m.st, !.redis = r.st,
                                        !.res = [op |-> "put", h |-> h, key |-> key,
                                                 mem |-> m.res, redis |-> r.res]]
                    /\ now' = now + d * TickMs
    /\ UnchangedButStore

TsGet ==
    /\ \E h \in StoreHandles, key \in StoreKeys :
          ts' = [ts EXCEPT !.res = [op |-> "get", h |-> h, key |-> key,
                                    mem |-> MemGet(ts.mem, h, key, now),
                                    redis |-> RedisGet(ts.redis, h, key, now)]]
    /\ UNCHANGED now
    /\ UnchangedButStore

TsAll ==
    /\ \E h \in StoreHandles :
          ts' = [ts EXCEPT !.res = [op |-> "all", h |-> h, key |-> <<>>,
                                    mem |-> StoreAll(ts.mem, h, now),
                                    redis |-> RedisAll(ts.redis, h, now)]]
    /\ UNCHANGED now
    /\ UnchangedButStore

\* cleanup: the in-memory store drops its expired maps; Redis does nothing.
TsCleanup ==
    /\ ts' = [ts EXCEPT !.mem = MemCleanup(ts.mem, now),
                        !.res = [op |-> "cleanup", h |-> NoHandle, key |-> <<>>,
                                 mem |-> "ok", redis |-> "ok"]]
    /\ UNCHANGED now
    /\ UnchangedButStore

TsTick ==
    /\ now < MaxTicks * TickMs
    /\ now' = now + TickMs
    /\ ts' = [ts EXCEPT !.res = [op |-> "tick", h |-> NoHandle, key |-> <<>>,
                                 mem |-> "ok", redis |-> "ok"]]
    /\ UnchangedButStore

NextStore == TsCreate \/ TsPut \/ TsGet \/ TsAll \/ TsCleanup \/ TsTick

SpecStore == InitStore /\ [][NextStore]_vars

\* C14 (as claimed): a put changes no entry a handle already holds, in
\* either store: placeholder -> raw and placeholder -> category stay.
C14_AppendOnly ==
    [][ts'.res.op = "put" =>
          /\ \A h \in DOMAIN ts.mem : \A key \in DOMAIN ts.mem[h].kv :
                /\ ts'.mem[h].kv[key] = ts.mem[h].kv[key]
                /\ ts'.mem[h].meta[key] = ts.mem[h].meta[key]
          /\ \A h \in DOMAIN ts.redis : \A key \in DOMAIN ts.redis[h].kv :
                /\ ts'.redis[h].kv[key] = ts.redis[h].kv[key]
                /\ ts'.redis[h].meta[key] = ts.redis[h].meta[key]]_vars

\* C15 (as claimed): a get or all on a created handle answers None / two
\* empty maps once the handle's TTL has elapsed, and answers from the
\* stored entries before that, on both stores.
C15_ExpiredBehavesEmpty ==
    (ts.phase = "run" /\ ts.res.op \in {"get", "all"} /\ ts.res.h \in DOMAIN ts.redis) =>
        LET h == ts.res.h
            empty == IF ts.res.op = "get" THEN None
                     ELSE [kv |-> EmptyMap, meta |-> EmptyMap]
            held(e) == IF ts.res.op = "all" THEN [kv |-> e.kv, meta |-> e.meta]
                       ELSE IF ts.res.key \in DOMAIN e.kv THEN e.kv[ts.res.key] ELSE None
        IN  /\ now > h + StoreTtlSeconds * 1000 =>
                  ts.res.mem = empty /\ ts.res.redis = empty
            /\ now < h + StoreTtlSeconds * 1000 =>
                  ts.res.mem = held(ts.mem[h]) /\ ts.res.redis = held(ts.redis[h])

\* C16 (as claimed): whatever the call, the in-memory store and the Redis
\* store answer alike.
C16_BackendsAgree ==
    ts.phase = "run" => ts.res.mem = ts.res.redis

\* C17 (as claimed): a put that Redis accepts leaves the record with an
\* expiry, and one no later than the expiry it had.
C17_PutPreservesTtl ==
    [][(ts'.res.op = "put" /\ ts'.res.redis = "ok") =>
          /\ ts'.redis[ts'.res.h].exp # NoExpiry
          /\ ts'.redis[ts'.res.h].exp <= ts.redis[ts'.res.h].exp]_vars

-----------------------------------------------------------------------------
(* The cleanup specification: an in-memory store on which handles are     *)
(* created at different instants and given entries, the clock advances,    *)
(* and cleanup and all are called.  ts.redis keeps a record of every       *)
(* handle that was created.                                                *)

\* create(ttl_seconds) at an instant no handle was created at.
CleanupCreate ==
    /\ ts.creates < MaxHandles
    /\ now \notin DOMAIN ts.redis
    /\ ts' = [ts EXCEPT !.mem = MemCreate(ts.mem, now, StoreTtlSeconds),
                        !.redis = RedisCreate(ts.redis, now, StoreTtlSeconds),
                        !.creates = ts.creates + 1,
                        !.res = [op |-> "create", h |-> now, key |-> <<>>,
                                 mem |-> "ok", redis |-> "ok"]]
    /\ UNCHANGED now
    /\ UnchangedButStore

\* put(handle, key, value, meta) on the in-memory store.
CleanupPut ==
    /\ \E h \in StoreHandles, key \in StoreKeys :
          LET m == MemPut(ts.mem, h, key, "alice", "pii")
          IN  ts' = [ts EXCEPT !.mem = m.st,
                               !.res = [op |-> "put", h |-> h, key |-> key,
                                        mem |-> m.res, redis |-> "ok"]]
    /\ UNCHANGED now
    /\ UnchangedButStore

NextCleanup == CleanupCreate \/ CleanupPut \/ TsAll \/ TsCleanup \/ TsTick

SpecCleanup == InitStore /\ [][NextCleanup]_vars

\* C37: a cleanup of the in-memory store removes the handles whose expiry
\* is earlier than now and no other, leaves every handle it keeps with the
\* entries it had, and all() on a handle it removed answers two empty maps.
C37_CleanupRemovesExpiredOnly ==
    [][ts'.res.op = "cleanup" =>
          /\ DOMAIN ts'.mem = {h \in DOMAIN ts.mem : ~(ts.mem[h].exp < now)}
          /\ \A h \in DOMAIN ts'.mem : ts'.mem[h] = ts.mem[h]
          /\ \A h \in DOMAIN ts.mem \ DOMAIN ts'.mem :
                StoreAll(ts'.mem, h, now') = [kv |-> EmptyMap, meta |-> EmptyMap]]_vars

\* A cleanup after which one handle is gone from the in-memory store and
\* another, holding an entry, is still there.
C37_Witness ==
    /\ ts.phase = "run"
    /\ ts.res.op = "cleanup"
    /\ DOMAIN ts.redis \ DOMAIN ts.mem # {}
    /\ \E h \in DOMAIN ts.mem : ts.mem[h].kv # EmptyMap

-----------------------------------------------------------------------------
(* The providers specification: one streaming run of a provider's          *)
(* stream_request.  Each step takes one line of the upstream stream: a     *)
(* text delta, or one of the provider's events that end the text.          *)

Providers == {"openai", "claude", "gemini"}

InitProviders ==
    /\ store = SeededStore
    /\ now = 1
    /\ ServerIdle
    /\ RedactIdle /\ PolicyIdle /\ ProxyIdle
    /\ \E provider \in Providers, detokenizer \in BOOLEAN :
          /\ stream = [provider |-> provider, detokenizer |-> detokenizer, texts |-> 0,
                       received |-> <<>>, out |-> <<>>, terminator |-> FALSE,
                       phase |-> "streaming"]
          /\ sd = [token_handle |-> IF detokenizer THEN StreamHandle ELSE NoHandle,
                   buffer |-> <<>>]

UnchangedButStream ==
    UNCHANGED <<store, now, hmacTab, rq, redacted, detok, pol, px, calls, ts, fs, rt>>

\* A text delta: safe = await detokenizer.process_chunk(text); the chunk is
\* handed on with safe in place of its text when safe is not empty, and
\* dropped otherwise, also when it is the last chunk of the stream.  With
\* detokenizer None (no active handle) the call raises.
TextDelta(piece, last) ==
    IF ~stream.detokenizer
    THEN /\ stream' = [stream EXCEPT !.phase = "crashed", !.texts = stream.texts + 1,
                                     !.received = stream.received \o piece]
         /\ UNCHANGED <<sd, audit>>
    ELSE LET r == ProcessChunk(sd.buffer, piece, sd.token_handle, store, now)
         IN  /\ sd' = [sd EXCEPT !.buffer = r.buffer]
             /\ stream' = [stream EXCEPT !.texts = stream.texts + 1,
                                         !.received = stream.received \o piece,
                                         !.out = stream.out \o r.out,
                                         !.terminator = last /\ r.out # <<>>,
                                         !.phase = IF last THEN "ended" ELSE "streaming"]
             /\ audit' = audit \o r.recs

\* remaining = await detokenizer.flush(), emitted as a text delta when not
\* empty, before the line that triggered it.
FlushDelta(last) ==
    IF ~stream.detokenizer
    THEN /\ stream' = [stream EXCEPT !.phase = "crashed"]
         /\ UNCHANGED <<sd, audit>>
    ELSE /\ sd' = [sd EXCEPT !.buffer = <<>>]
         /\ stream' = [stream EXCEPT !.out = stream.out \o sd.buffer,
                                     !.terminator = last,
                                     !.phase = IF last THEN "ended" ELSE "streaming"]
         /\ UNCHANGED audit

\* A line handed on as it is.
PassThrough(last) ==
    /\ stream' = [stream EXCEPT !.terminator = last,
                                !.phase = IF last THEN "ended" ELSE "streaming"]
    /\ UNCHANGED <<sd, audit>>

\* OpenAIProxy.stream_request: a content delta, or data: [DONE].
OpenAIStreamLine ==
    /\ stream.provider = "openai" /\ stream.phase = "streaming"
    /\ \/ \E piece \in Pieces : stream.texts < MaxPieces /\ TextDelta(piece, FALSE)
       \/ FlushDelta(TRUE)
    /\ UnchangedButStream

\* ClaudeProxy.stream_request: a content_block_delta with a text_delta, an
\* event of another type, or message_stop.
ClaudeStreamLine ==
    /\ stream.provider = "claude" /\ stream.phase = "streaming"
    /\ \/ \E piece \in Pieces : stream.texts < MaxPieces /\ TextDelta(piece, FALSE)
       \/ PassThrough(FALSE)
       \/ FlushDelta(TRUE)
    /\ UnchangedButStream

\* GeminiProxy.stream_request: a chunk whose first candidate carries text
\* (the final candidate, with its finishReason, among them), a final
\* candidate without parts, or a chunk whose candidates list is empty.
GeminiStreamLine ==
    /\ stream.provider = "gemini" /\ stream.phase = "streaming"
    /\ \/ \E piece \in Pieces, last \in BOOLEAN :
             stream.texts < MaxPieces /\ TextDelta(piece, last)
       \/ PassThrough(TRUE)
       \/ FlushDelta(FALSE)
    /\ UnchangedButStream

\* The upstream connection breaks after the first text: aiter_lines raises,
\* process_streaming_request prints the error and raises it again, and the
\* response ends there.
StreamUpstreamError ==
    /\ stream.phase = "streaming"
    /\ stream.texts > 0
    /\ stream' = [stream EXCEPT !.phase = "aborted"]
    /\ UNCHANGED <<sd, audit>>
    /\ UnchangedButStream

NextProviders ==
    OpenAIStreamLine \/ ClaudeStreamLine \/ GeminiStreamLine \/ StreamUpstreamError

SpecProviders == InitProviders /\ [][NextProviders]_vars

\* C18 (as claimed): when the stream of a provider has ended, nothing is
\* left in the detokenizer's buffer.
C18_FlushedAtStreamEnd ==
    (stream.phase = "ended" /\ stream.provider \in Providers) => sd.buffer = <<>>

\* C26 (as claimed): a stream that fails after it has started, by an error
\* of the upstream connection or of the detokenizer, still ends with the
\* provider's terminator and holds nothing back.
C26_ErrorEndsWithTerminator ==
    (stream.phase \in {"aborted", "crashed"} /\ stream.provider \in Providers) =>
        /\ stream.terminator
        /\ sd.buffer = <<>>

\* C39 (as claimed): a stream started without a detokenizer, no message of
\* the request having yielded a handle, never fails, and what it has handed
\* on is the text it received, unchanged.
C39_NoHandleStreamsThrough ==
    (stream.phase # "idle" /\ stream.provider \in Providers /\ ~stream.detokenizer) =>
        /\ stream.phase # "crashed"
        /\ stream.out = stream.received

-----------------------------------------------------------------------------
(* The detector specification: find_spans on a text that is one candidate  *)
(* of the credit-card pattern or of the SSN pattern.                       *)

DigitChars == <<"0", "1", "2", "3", "4", "5", "6", "7", "8", "9">>

\* str.replace(ch, "") on a text.
RECURSIVE Remove(_, _)
Remove(text, ch) ==
    IF text = <<>> THEN <<>>
    ELSE IF Head(text) = ch THEN Remove(Tail(text), ch)
         ELSE <<Head(text)>> \o Remove(Tail(text), ch)

\* The loop of luhn_check over reverse_digits from index i on.
RECURSIVE LuhnTotal(_, _)
LuhnTotal(digits, i) ==
    IF i >= Len(digits) THEN 0
    ELSE LET n == ((CHOOSE idx \in 1..Len(DigitChars) : DigitChars[idx] = digits[Len(digits) - i]) - 1)
             doubled == IF 2 * n > 9 THEN 2 * n - 9 ELSE 2 * n
         IN  (IF i % 2 = 1 THEN doubled ELSE n) + LuhnTotal(digits, i + 1)

\* luhn_check(card_number)
LuhnCheck(card_number) ==
    LET stripped == Remove(Remove(card_number, " "), "-")
    IN  /\ stripped # <<>>
        /\ \A i \in 1..Len(stripped) : (\E idx \in 1..Len(DigitChars) : DigitChars[idx] = stripped[i])
        /\ LuhnTotal(stripped, 0) % 10 = 0

\* validate_ssn_format(ssn) on a match of the SSN pattern, which has three
\* parts around its two dashes; area is int(parts[0]).
ValidateSsnFormat(area) == ~(area = 0 \/ area = 666 \/ area >= 900)

LeadDigits == {"1", "4"}

\* The texts the credit-card pattern matches: the candidates differ from
\* the Luhn-valid number 4532 0151 1283 0366 in the first digit of the
\* first three groups and in the last digit, and in what [\s-]? matches
\* between two groups: nothing, a dash, a space, or other white space.
CardCandidates ==
    LET base == <<"4", "5", "3", "2", "0", "1", "5", "1", "1", "2", "8", "3", "0", "3", "6", "6">>
    IN  {[kind |-> "card",
          digits |-> [i \in 1..16 |-> IF i = 1 THEN l1 ELSE IF i = 5 THEN l2 ELSE IF i = 9 THEN l3
                                      ELSE IF i = 16 THEN last ELSE base[i]],
          seps |-> seps] :
            l1 \in LeadDigits, l2 \in LeadDigits, l3 \in LeadDigits,
            last \in {DigitChars[i] : i \in 1..10},
            seps \in [1..3 -> {<<>>, <<"-">>, <<" ">>, <<"\t">>}]}

\* The text of a card candidate: four groups of four digits and what
\* stands between them.
CardText(c) ==
    SubSeq(c.digits, 1, 4) \o c.seps[1] \o SubSeq(c.digits, 5, 8) \o c.seps[2]
    \o SubSeq(c.digits, 9, 12) \o c.seps[3] \o SubSeq(c.digits, 13, 16)

\* The offset in the text at which group g starts.
GroupStart(c, g) ==
    IF g = 1 THEN 0
    ELSE IF g = 2 THEN 4 + Len(c.seps[1])
    ELSE IF g = 3 THEN 8 + Len(c.seps[1]) + Len(c.seps[2])
    ELSE 12 + Len(c.seps[1]) + Len(c.seps[2]) + Len(c.seps[3])

\* The matches of the phone pattern in the text of a card candidate, as
\* finditer lists them: a group that starts with 1 at a word boundary,
\* followed by the next group and a word boundary, is 1 + three digits +
\* separator + four digits.
PhoneMatches(c) ==
    LET at1 == c.digits[1] = "1" /\ c.seps[2] # <<>>
        at2 == ~at1 /\ c.seps[1] # <<>> /\ c.digits[5] = "1" /\ c.seps[3] # <<>>
        at3 == ~at2 /\ c.seps[2] # <<>> /\ c.digits[9] = "1"
    IN  {[cat |-> "pii", s |-> 0, e |-> GroupStart(c, 2) + 4] : x \in {y \in {1} : at1}}
        \cup {[cat |-> "pii", s |-> GroupStart(c, 2), e |-> GroupStart(c, 3) + 4] :
                 x \in {y \in {1} : at2}}
        \cup {[cat |-> "pii", s |-> GroupStart(c, 3), e |-> Len(CardText(c))] :
                 x \in {y \in {1} : at3}}

\* spans after the pattern loops of find_spans on the text of candidate c:
\* the matches that passed their validator.
AcceptedMatches(c) ==
    IF c.kind = "card"
    THEN {[cat |-> "pii", s |-> 0, e |-> Len(CardText(c))] :
             x \in {y \in {1} : LuhnCheck(CardText(c))}}
         \cup PhoneMatches(c)
    ELSE {[cat |-> "pii", s |-> 0, e |-> 11] : x \in {y \in {1} : ValidateSsnFormat(c.area)}}

InitDetect ==
    /\ store = EmptyMap
    /\ now = 1
    /\ hmacTab = EmptyMap
    /\ audit = <<>>
    /\ CallsIdle /\ StoresIdle /\ RouteIdle
    /\ StreamIdle /\ RedactIdle /\ PolicyIdle /\ ProxyIdle
    /\ \E c \in CardCandidates \cup ({[kind |-> "ssn", area |-> a] : a \in {0, 1, 123, 665, 666, 667, 899, 900, 987, 999}}) :
          fs = [phase |-> "new", cand |-> c, spans |-> <<>>]

\* find_spans(text)
FindSpansCall ==
    /\ fs.phase = "new"
    /\ fs' = [fs EXCEPT !.phase = "done", !.spans = FindSpans(AcceptedMatches(fs.cand))]
    /\ UNCHANGED <<store, now, hmacTab, audit, sd, stream, rq, redacted, detok, pol, px,
                   calls, ts, rt>>

NextDetect == FindSpansCall

SpecDetect == InitDetect /\ [][NextDetect]_vars

\* The Luhn checksum of the sixteen digits of a card candidate.
DigitsPassLuhn(c) == LuhnTotal(c.digits, 0) % 10 = 0

\* C22 (as claimed): find_spans returns the span of a card candidate as pii
\* when its digits pass the Luhn checksum and no span for it when they fail,
\* and returns the span of an SSN candidate as pii unless its area is 000,
\* 666 or in 900-999.
C22_ValidatorsDecideEmission ==
    fs.phase = "done" =>
        LET c == fs.cand
            whole == IF c.kind = "card"
                     THEN [cat |-> "pii", s |-> 0, e |-> Len(CardText(c))]
                     ELSE [cat |-> "pii", s |-> 0, e |-> 11]
            valid == IF c.kind = "card" THEN DigitsPassLuhn(c)
                     ELSE c.area \notin ({0, 666} \cup 900..999)
            emitted == \E i \in 1..Len(fs.spans) : fs.spans[i] = whole
        IN  emitted <=> valid

-----------------------------------------------------------------------------
(* The size-limit specification: POST /redact on payloads around the       *)
(* limit, one request after the other on one server.                       *)

\* settings.max_payload_kb
MaxPayloadKb == 1

\* len(text.encode("utf-8"))
RECURSIVE Utf8Len(_)
\* len(ch.encode("utf-8")): the guillemets take two bytes, the other
\* characters of the model one.
Utf8Len(text) == IF text = <<>> THEN 0 ELSE (IF Head(text) \in {LQ, RQ} THEN 2 ELSE 1) + Utf8Len(Tail(text))

\* The size test with the limit itself rejected.
PayloadTooLargeAtLimit(text) == Utf8Len(text) >= MaxPayloadKb * KbBytes

\* len(text.encode("utf-8")) > settings.max_payload_kb * 1024
PayloadTooLarge(text) == Utf8Len(text) > MaxPayloadKb * KbBytes

RECURSIVE TextsUpTo(_)
TextsUpTo(n) ==
    IF n = 0 THEN {<<>>}
    ELSE TextsUpTo(n - 1)
         \cup {Append(t, ch) : t \in {u \in TextsUpTo(n - 1) : Len(u) = n - 1}, ch \in {"x", LQ}}

\* The requests: a payload string and the pattern matches in it, none or
\* one pii match on its first character.
LimitRequests ==
    {[text |-> t, cands |-> c, conv |-> "INC-1", caller |-> "incident-mgr"] :
        t \in TextsUpTo(MaxBodyLen), c \in {{}, {[cat |-> "pii", s |-> 0, e |-> 1]}}}

InitLimit ==
    /\ store = EmptyMap
    /\ now = 1
    /\ ServerIdle
    /\ StreamIdle /\ PolicyIdle /\ ProxyIdle
    /\ \E q \in {x \in LimitRequests : x.cands = {} \/ x.text # <<>>} :
          rq = [text |-> q.text, cands |-> q.cands, conv |-> q.conv, caller |-> q.caller,
                phase |-> "new", n |-> 1]
    /\ redacted = NoRedact
    /\ detok = NoDetok

\* POST /redact through redact_internal: 413 before anything else when the
\* payload is too large.
RedactRequest ==
    /\ rq.phase = "new"
    /\ IF PayloadTooLarge(rq.text)
       THEN /\ redacted' = [handle |-> NoHandle, status |-> 413]
            /\ UNCHANGED <<hmacTab, store, audit>>
       ELSE LET keys == DigestKeys(rq.text, rq.cands, rq.conv) \ DOMAIN hmacTab
            IN  \E fresh \in [keys -> Digests] :
                   LET tab == [k \in DOMAIN hmacTab \cup keys |->
                                  IF k \in keys THEN fresh[k] ELSE hmacTab[k]]
                       r == RedactInternal(rq.text, rq.cands, rq.conv, rq.caller,
                                           store, now, tab)
                   IN  /\ hmacTab' = tab
                       /\ store' = r.store
                       /\ audit' = audit \o r.recs
                       /\ redacted' = [handle |-> r.token_map_handle, status |-> 200,
                                       sanitized_payload |-> r.sanitized_payload,
                                       redactions |-> r.redactions]
    /\ rq' = [rq EXCEPT !.phase = "answered"]
    /\ UNCHANGED <<now, sd, stream, detok, pol, px, calls, ts, fs, rt>>

\* The next request arrives, later.
NextRequest ==
    /\ rq.phase = "answered"
    /\ rq.n < MaxRequests
    /\ \E q \in {x \in LimitRequests : x.cands = {} \/ x.text # <<>>} :
          rq' = [text |-> q.text, cands |-> q.cands, conv |-> q.conv, caller |-> q.caller,
                 phase |-> "new", n |-> rq.n + 1]
    /\ now' = now + 1
    /\ UNCHANGED <<store, hmacTab, audit, sd, stream, redacted, detok, pol, px, calls, ts, fs, rt>>

NextLimit == RedactRequest \/ NextRequest

SpecLimit == InitLimit /\ [][NextLimit]_vars

-----------------------------------------------------------------------------
(* The route specification: POST /route and POST /classify on the policy  *)
(* engine.  The request is the set of categories classify_text finds in   *)
(* the text and the context; Context().dict() holds every key, None for a  *)
(* field that is not set.                                                  *)

NoPlan == [target |-> None, pre |-> <<>>, post |-> <<>>]

\* The document of tests/test_policy.py.
InitRoute ==
    /\ store = EmptyMap
    /\ now = 1
    /\ hmacTab = EmptyMap
    /\ audit = <<>>
    /\ CallsIdle /\ StoresIdle /\ DetectIdle
    /\ StreamIdle /\ RedactIdle /\ PolicyIdle /\ ProxyIdle
    /\ \E endpoint \in {"route", "classify"},
          doc \in {PolicyDoc(RegionRoutingFixture, <<ExportControl, PiiUs, PiiEu>>),
                   PolicyDoc(RegionRoutingFixture, <<OpsNoModels, PiiAny>>),
                   PolicyDoc(RegionRoutingFixture, <<DefaultRedact>>)},
          cats \in SUBSET PolicyCats,
          region \in {"us", "eu", "cn", None}, caller \in {"user1", "incident-mgr", "external-analyst", None} :
          rt = [phase |-> "new", endpoint |-> endpoint, doc |-> doc, cats |-> cats,
                ctx |-> [region |-> region, caller |-> caller],
                response |-> [status |-> 0]]

\* The plan route builds for a decision that is not a block.
RoutePlan(decision) ==
    LET pre == IF decision.requires_redaction
               THEN <<[tool |-> "redact", args |-> [policy |-> "default"]]>>
               ELSE <<>>
        post == IF decision.requires_redaction /\ decision.allow_detokenize
                THEN <<[tool |-> "detokenize",
                        args |-> [allow_categories |-> decision.allowed_categories]]>>
                ELSE <<>>
    IN  [target |-> decision.target,
         pre |-> pre,
         post |-> Append(post, [tool |-> "output_safety", args |-> EmptyMap])]

\* POST /route.  An exception of policy.decide is answered 500.
RouteCall ==
    /\ rt.phase = "new"
    /\ rt.endpoint = "route"
    /\ LET decision == Decide(rt.doc, rt.cats, rt.ctx)
       IN  IF decision.raised
           THEN /\ rt' = [rt EXCEPT !.phase = "answered",
                             !.response = [status |-> 500, ok |-> FALSE, has_plan |-> FALSE,
                                           plan |-> NoPlan, has_decision |-> FALSE,
                                           decision |-> NoDecision]]
                /\ UNCHANGED audit
           ELSE IF decision.action = "block"
           THEN /\ rt' = [rt EXCEPT !.phase = "answered",
                             !.response = [status |-> 200, ok |-> FALSE, has_plan |-> FALSE,
                                           plan |-> NoPlan, has_decision |-> TRUE,
                                           decision |-> decision]]
                /\ UNCHANGED audit
           ELSE /\ rt' = [rt EXCEPT !.phase = "answered",
                             !.response = [status |-> 200, ok |-> TRUE, has_plan |-> TRUE,
                                           plan |-> RoutePlan(decision), has_decision |-> TRUE,
                                           decision |-> decision]]
                /\ audit' = Append(audit, [action |-> "route", caller |-> rt.ctx.caller,
                                           categories |-> rt.cats, decision |-> decision,
                                           target |-> decision.target])
    /\ UNCHANGED <<store, now, hmacTab, sd, stream, rq, redacted, detok, pol, px, calls, ts, fs>>

\* POST /classify.  An exception of policy.decide is answered 500.
ClassifyCall ==
    /\ rt.phase = "new"
    /\ rt.endpoint = "classify"
    /\ LET decision == Decide(rt.doc, rt.cats, rt.ctx)
       IN  IF decision.raised
           THEN /\ rt' = [rt EXCEPT !.phase = "answered",
                             !.response = [status |-> 500, ok |-> FALSE, has_decision |-> FALSE,
                                           categories |-> {}, suggested_action |-> None]]
                /\ UNCHANGED audit
           ELSE /\ rt' = [rt EXCEPT !.phase = "answered",
                             !.response = [status |-> 200, ok |-> TRUE, has_decision |-> TRUE,
                                           categories |-> rt.cats,
                                           suggested_action |-> decision.action]]
                /\ audit' = Append(audit, [action |-> "classify", caller |-> rt.ctx.caller,
                                           categories |-> rt.cats, decision |-> decision,
                                           policy_version |-> decision.policy_version])
    /\ UNCHANGED <<store, now, hmacTab, sd, stream, rq, redacted, detok, pol, px, calls, ts, fs>>

NextRoute == RouteCall \/ ClassifyCall

SpecRoute == InitRoute /\ [][NextRoute]_vars

\* The tools of a list of execution steps.
Tools(steps) == {steps[i].tool : i \in 1..Len(steps)}

\* C24 (as claimed): POST /route answers ok=false with the decision and no
\* plan exactly when the decision's action is block; otherwise it answers a
\* plan whose target is the decision's, whose pre steps hold redact iff
\* requires_redaction, whose post steps hold detokenize with the decision's
\* allowed categories iff requires_redaction and allow_detokenize, and whose
\* last post step is output_safety.
C24_RoutePlanShape ==
    (rt.phase = "answered" /\ rt.endpoint = "route") =>
        LET r == rt.response
            d == r.decision
        IN  /\ (~r.ok /\ ~r.has_plan /\ r.has_decision) <=> d.action = "block"
            /\ d.action # "block" =>
                  /\ r.has_plan /\ r.ok
                  /\ r.plan.target = d.target
                  /\ ("redact" \in Tools(r.plan.pre)) <=> d.requires_redaction
                  /\ ("detokenize" \in Tools(r.plan.post))
                        <=> (d.requires_redaction /\ d.allow_detokenize)
                  /\ \A i \in 1..Len(r.plan.post) :
                        r.plan.post[i].tool = "detokenize" =>
                            r.plan.post[i].args.allow_categories = d.allowed_categories
                  /\ r.plan.post[Len(r.plan.post)].tool = "output_safety"

\* C28 (as claimed): for every context, a region or a caller that is not
\* set included, decide returns a decision, so /classify and /route answer
\* 200.
C28_DecideTotal ==
    rt.phase = "answered" => (rt.response.status = 200 /\ rt.response.has_decision)

-----------------------------------------------------------------------------
(* The buffer specification: one StreamingDetokenizer fed whole chunks,    *)
(* each chunk any short text, and flushed at the end.                      *)

RECURSIVE ChunksUpTo(_)
\* What a chunk is made of: a placeholder, plain text, the literal prefix
\* of a placeholder, and what completes the prefix into a placeholder.
ChunksUpTo(n) ==
    IF n = 0 THEN {<<>>}
    ELSE ChunksUpTo(n - 1) \cup {c \o p : c \in ChunksUpTo(n - 1), p \in {PhPii, <<"h">>, TokenPrefix,
                                   <<"P","I","I",":","a","b","1","2",RQ>>}}

Chunks == ChunksUpTo(MaxChunkPieces) \ {<<>>}

InitBuffer ==
    /\ store = SeededStore
    /\ now = 1
    /\ ServerIdle
    /\ RedactIdle /\ PolicyIdle /\ ProxyIdle
    /\ sd = [token_handle |-> StreamHandle, buffer |-> <<>>]
    /\ stream = [calls |-> 0, last |-> <<>>, out |-> <<>>, phase |-> "feeding"]

\* await detokenizer.process_chunk(chunk_text)
BufferChunk ==
    /\ stream.phase = "feeding"
    /\ stream.calls < MaxChunks
    /\ \E chunk \in Chunks :
          LET r == ProcessChunk(sd.buffer, chunk, sd.token_handle, store, now)
          IN  /\ sd' = [sd EXCEPT !.buffer = r.buffer]
              /\ stream' = [stream EXCEPT !.calls = stream.calls + 1, !.last = chunk,
                                          !.out = stream.out \o r.out]
              /\ audit' = audit \o r.recs
    /\ UnchangedButStream

\* await detokenizer.flush()
BufferFlush ==
    /\ stream.phase = "feeding"
    /\ sd' = [sd EXCEPT !.buffer = <<>>]
    /\ stream' = [stream EXCEPT !.out = stream.out \o sd.buffer, !.phase = "flushed"]
    /\ UNCHANGED audit
    /\ UnchangedButStream

NextBuffer == BufferChunk \/ BufferFlush

SpecBuffer == InitBuffer /\ [][NextBuffer]_vars

\* C29 (as claimed): after every process_chunk call the buffer holds no
\* complete placeholder, and it is empty or starts with the literal prefix
\* of a placeholder, no text kept in front of it.
C29_BufferIsOnePrefix ==
    (stream.phase = "feeding" /\ sd.buffer # <<>>) =>
        /\ FindIter(sd.buffer, 1) = <<>>
        /\ Len(sd.buffer) >= Len(TokenPrefix)
        /\ SubSeq(sd.buffer, 1, Len(TokenPrefix)) = TokenPrefix

\* A text that a placeholder can start with: the literal prefix, letters of
\* the type, and after a colon up to four hex digits.
ViablePrefix(b) ==
    /\ Len(b) >= Len(TokenPrefix)
    /\ SubSeq(b, 1, Len(TokenPrefix)) = TokenPrefix
    /\ LET k == RunLen(b, Len(TokenPrefix) + 1, UpperClass)
           rest == SubSeq(b, Len(TokenPrefix) + k + 1, Len(b))
       IN  \/ rest = <<>>
           \/ /\ k >= 1
              /\ Head(rest) = ":"
              /\ Len(rest) <= 5
              /\ \A j \in 2..Len(rest) : rest[j] \in HexClass

\* The length of the longest chunk.
LongestChunk == CHOOSE n \in 0..(MaxChunkPieces * Len(PhPii)) :
                    /\ \E c \in Chunks : Len(c) = n
                    /\ \A c \in Chunks : Len(c) <= n

\* C30 (as claimed): after any series of process_chunk calls the buffer
\* holds no more text than one chunk, and what it holds can still become a
\* placeholder.
C30_BoundedRetention ==
    (stream.phase = "feeding" /\ sd.buffer # <<>>) =>
        /\ Len(sd.buffer) <= LongestChunk
        /\ ViablePrefix(sd.buffer)

====
